---- MODULE Spec2Model ----
(***************************************************************************)
(* pg_mentor: the shared table of prepared-statement decisions, the        *)
(* generation counter that tells backends to re-read it, the per-backend   *)
(* registry of prepared statements and the plain switch strategy.          *)
(*                                                                         *)
(* A double of the program is kept as an integer number of 1/Scale units,  *)
(* Scale being a common multiple of every divisor the running averages     *)
(* use (1..MENTOR_TBL_ENTRY_STAT_SIZE), so that the averages are exact.    *)
(* nblocks[] is int64 and is kept unscaled.                                *)
(***************************************************************************)
EXTENDS Integers, Sequences, FiniteSets, TLC

\* ------------------------------------------------------------ bounds
Workers == {1, 2}                  \* backends attached to the database
QueryIds == {1, 2}                 \* non-zero query identifiers
Names == {"a", "b"}                \* prepared statement names of a backend
MaxExec == 2                       \* executions recorded over all entries
MaxEpoch == 3                      \* cap of state_decisions
MaxTally == 4                      \* executions recorded, two entries
MaxRevert == 5                     \* cap of state_decisions, passes in a row
MaxRing == 12                      \* executions recorded, one ring
MaxLockEpoch == 2                  \* cap of state_decisions, lock by lock
MaxLockExec == 1                   \* executions recorded, lock by lock
MaxMeterings == 1002               \* executions metered by automode.c
MaxNesting == 2                    \* hooks of one backend inside one another
NBlocksVals == {1, 4}              \* buffer usage of one execution
ExecTimes == {1, 3}                \* execution time of one execution, ms
PlanTimes == {2}                   \* planning time, ms
RefArgs == {<<-1, -1>>, <<2, 2>>}   \* reference time and blocks; -1 is SQL NULL
Modes == {0, 1, 2}                 \* auto, force generic, force custom
BadModes == {3, -1}                \* status arguments that name no mode

\* ------------------------------------------------------------ constants
MENTOR_TBL_ENTRY_STAT_SIZE == 10
METERINGS_MAX == 1000
Scale == 2 * 2 * 2 * 3 * 3 * 5 * 7
CURSOR_OPT_GENERIC_PLAN == "CURSOR_OPT_GENERIC_PLAN"
CURSOR_OPT_CUSTOM_PLAN == "CURSOR_OPT_CUSTOM_PLAN"
CURSOR_OPT_PARALLEL_OK == "CURSOR_OPT_PARALLEL_OK"

NoEntry == [absent |-> TRUE]
NoStmt == [absent |-> TRUE]
NoOwed == [absent |-> TRUE]
Idle == [op |-> "idle"]
AllIds == QueryIds \cup {0}
StatIdx == 1..MENTOR_TBL_ENTRY_STAT_SIZE

VARIABLES
    pgm_hash,                \* shared: queryid -> MentorTblEntry or NoEntry
    state_decisions,         \* shared: the generation counter
    alive,                   \* backend -> is the process running
    prepared_queries,        \* backend -> name -> PreparedStatement or NoStmt
    pgm_local_hash,          \* backend -> queryId -> local refcounter (0: none)
    local_state_generation,  \* backend -> last generation applied
    before_shmem_exit_initialised, \* backend -> exit callback registered
    partition_lock,          \* shared: queryid -> backend holding the
                             \*   partition lock of the entry, 0 when free
    pc,                      \* backend -> the call it is inside of, or Idle
    owed,                    \* history: backend -> name -> manual mode owed
    metering_htab,           \* automode.c, one backend: the PSMeteringEntry of
                             \*   the query, or NoEntry
    nesting_level,           \* backend -> the static counter of the hooks
    hook_depth,              \* history: backend -> planner and executor hooks
                             \*   of the chain that have not returned yet
    last                     \* the last call and what it returned

vars == <<pgm_hash, state_decisions, alive, prepared_queries, pgm_local_hash,
          local_state_generation, before_shmem_exit_initialised,
          partition_lock, pc, owed, metering_htab, nesting_level,
          hook_depth, last>>

lockvars == <<partition_lock, pc>>

\* ------------------------------------------------------------ helpers
RECURSIVE SumTo(_, _)
SumTo(f, n) == IF n = 0 THEN 0 ELSE f[n] + SumTo(f, n - 1)

RECURSIVE SumOver(_, _)
SumOver(f, S) ==
    IF S = {} THEN 0
    ELSE LET x == CHOOSE y \in S : TRUE IN f[x] + SumOver(f, S \ {x})

RECURSIVE GCD(_, _)
GCD(a, b) == IF b = 0 THEN a ELSE GCD(b, a % b)

\* C integer division truncates towards zero
TruncDiv(a, b) == IF a >= 0 THEN a \div b ELSE -((-a) \div b)

\* ------------------------------------------------------------ handles
set_plan_cache_mode(cursor_options, status) ==
    CASE status = 0 ->
            cursor_options \ {CURSOR_OPT_CUSTOM_PLAN, CURSOR_OPT_GENERIC_PLAN}
      [] status = 1 ->
            (cursor_options \ {CURSOR_OPT_CUSTOM_PLAN}) \cup {CURSOR_OPT_GENERIC_PLAN}
      [] status = 2 ->
            (cursor_options \ {CURSOR_OPT_GENERIC_PLAN}) \cup {CURSOR_OPT_CUSTOM_PLAN}
      [] OTHER -> cursor_options

get_plan_cache_mode(cursor_options) ==
    IF cursor_options \ {CURSOR_OPT_CUSTOM_PLAN, CURSOR_OPT_GENERIC_PLAN} # {}
    THEN 0
    ELSE IF CURSOR_OPT_GENERIC_PLAN \in cursor_options THEN 1
    ELSE IF CURSOR_OPT_CUSTOM_PLAN \in cursor_options THEN 2
    ELSE -1

\* the plan cache mode the engine uses for a statement with these options
EngineMode(cursor_options) ==
    IF CURSOR_OPT_GENERIC_PLAN \in cursor_options THEN 1
    ELSE IF CURSOR_OPT_CUSTOM_PLAN \in cursor_options THEN 2
    ELSE 0

\* ------------------------------------------------------------ entries
ring_buffer_size(entry) ==
    IF entry.nblocks[(entry.next_idx % MENTOR_TBL_ENTRY_STAT_SIZE) + 1] < 0
    THEN entry.next_idx
    ELSE MENTOR_TBL_ENTRY_STAT_SIZE

\* dshash_find_or_insert hands out the memory of a new entry as it is: the
\* fields nobody has written yet hold whatever the memory held.  The images
\* kept here: zeroed memory, and memory that looks like a reset entry, each
\* with the refcounter, fixed flag and plan_time given.
RawEntry(rc, fx, nb, pt) ==
    [refcounter |-> rc,
     plan_cache_mode |-> 0,
     ref_exec_time |-> nb * Scale,
     fixed |-> fx,
     nblocks |-> [i \in StatIdx |-> nb],
     times |-> [i \in StatIdx |-> nb * Scale],
     next_idx |-> 0,
     avg_nblocks |-> 0,
     ref_nblocks |-> nb * Scale,
     avg_exec_time |-> 0,
     plan_time |-> pt * Scale]

RawEntries(RC, FX, NB, PT) ==
    {RawEntry(rc, fx, nb, pt) : rc \in RC, fx \in FX, nb \in NB, pt \in PT}

\* What on_prepare writes into an entry it has just created: every field but
\* fixed and plan_time.
NewEntry(raw, mode) ==
    [raw EXCEPT
        !.refcounter = 1,
        !.plan_cache_mode = mode,
        !.ref_exec_time = -Scale,
        !.next_idx = 0,
        !.ref_nblocks = -Scale,
        !.avg_nblocks = 0,
        !.avg_exec_time = 0,
        !.nblocks = [i \in StatIdx |-> -1],
        !.times = [i \in StatIdx |-> -Scale]]

Init ==
    /\ pgm_hash = [q \in AllIds |-> NoEntry]
    /\ state_decisions = 1
    /\ alive = [w \in Workers |-> TRUE]
    /\ prepared_queries = [w \in Workers |-> [n \in Names |-> NoStmt]]
    /\ pgm_local_hash = [w \in Workers |-> [q \in QueryIds |-> 0]]
    /\ local_state_generation = [w \in Workers |-> 0]
    /\ before_shmem_exit_initialised = [w \in Workers |-> FALSE]
    /\ partition_lock = [q \in AllIds |-> 0]
    /\ pc = [w \in Workers |-> Idle]
    /\ owed = [w \in Workers |-> [n \in Names |-> NoOwed]]
    /\ metering_htab = NoEntry
    /\ nesting_level = [w \in Workers |-> 0]
    /\ hook_depth = [w \in Workers |-> 0]
    /\ last = [op |-> "init"]

\* ------------------------------------------------------------ history
\* owed[w][n] = [mode, synced, by]: the statement was live when a manual
\* pg_mentor_set_plan_mode of backend `by` stored `mode` for its queryId, the entry has kept
\* that mode since, and `synced` tells whether the backend has gone through
\* check_state since.  It is dropped as soon as the entry's mode differs or the
\* statement is gone.
OwedKept(base, hash, pq) ==
    [w \in Workers |-> [n \in Names |->
        IF base[w][n] = NoOwed THEN NoOwed
        ELSE IF pq[w][n] = NoStmt THEN NoOwed
        ELSE IF hash[pq[w][n].queryId] = NoEntry THEN NoOwed
        ELSE IF hash[pq[w][n].queryId].plan_cache_mode # base[w][n].mode THEN NoOwed
        ELSE base[w][n]]]

OwedSet(base, by, q, m, pq) ==
    [w \in Workers |-> [n \in Names |->
        IF pq[w][n] # NoStmt /\ pq[w][n].queryId = q
        THEN [mode |-> m, synced |-> FALSE, by |-> by]
        ELSE base[w][n]]]

OwedSynced(base, w) ==
    [base EXCEPT ![w] = [n \in Names |->
        IF @[n] = NoOwed THEN NoOwed ELSE [@[n] EXCEPT !.synced = TRUE]]]

\* ------------------------------------------------------------ locks
\* dshash_release_lock at the end of a call of backend w on the entry of
\* queryid q.  A call that is not followed step by step (pc[w] = Idle) runs
\* from taking the lock to releasing it in one step.
\* a return that leaves the partition locked
dshash_release_lock_kept(w, q) ==
    IF pc[w] = Idle
    THEN UNCHANGED lockvars
    ELSE /\ pc' = [pc EXCEPT ![w] = Idle]
         /\ UNCHANGED partition_lock
dshash_release_lock(w, q) ==
    IF pc[w] = Idle
    THEN UNCHANGED lockvars
    ELSE /\ partition_lock' = [partition_lock EXCEPT ![q] = 0]
         /\ pc' = [pc EXCEPT ![w] = Idle]

\* ------------------------------------------------------------ check_state
\* What check_state does in backend w: the statements afterwards, the local
\* generation afterwards, and whether it listed the prepared statements and
\* scanned the shared table.
check_state(w) ==
    LET generation == state_decisions
        pslst == {n \in Names : prepared_queries[w][n] # NoStmt}
    IN  IF generation = local_state_generation[w]
        THEN [pq |-> prepared_queries[w], gen |-> local_state_generation[w],
              fetched |-> FALSE, scanned |-> FALSE]
        ELSE IF pslst = {}
        THEN [pq |-> prepared_queries[w], gen |-> local_state_generation[w],
              fetched |-> TRUE, scanned |-> FALSE]
        ELSE [pq |-> [n \in Names |->
                        LET ps == prepared_queries[w][n] IN
                        IF ps # NoStmt /\ pgm_hash[ps.queryId] # NoEntry
                        THEN [ps EXCEPT !.cursor_options =
                                set_plan_cache_mode(@, pgm_hash[ps.queryId].plan_cache_mode)]
                        ELSE ps],
              gen |-> IF local_state_generation[w] < generation
                      THEN generation ELSE local_state_generation[w],
              fetched |-> TRUE, scanned |-> TRUE]

\* a move_mentor_status that counts one call twice
move_mentor_status_twice(decisions) == decisions + 2
\* a move_mentor_status whose increment is lost
move_mentor_status_lost(decisions) == decisions
move_mentor_status(decisions) == decisions + 1

\* pgm_post_parse_analyze: every parsed query goes through check_state
CheckState(w) ==
    /\ alive[w]
    /\ LET r == check_state(w) IN
        /\ prepared_queries' = [prepared_queries EXCEPT ![w] = r.pq]
        /\ local_state_generation' = [local_state_generation EXCEPT ![w] = r.gen]
        /\ owed' = OwedSynced(owed, w)
        /\ last' = [op |-> "check_state", w |-> w,
                    fetched |-> r.fetched, scanned |-> r.scanned,
                    again |-> (last.op = "check_state" /\ last.w = w)]
    /\ UNCHANGED <<pgm_hash, state_decisions, alive, pgm_local_hash,
                   before_shmem_exit_initialised,
                   metering_htab, nesting_level, hook_depth,
                   lockvars>>

\* a pg_mentor_reload_conf that leaves the counter alone
pg_mentor_reload_conf_idle(w) ==
    /\ alive[w]
    /\ state_decisions < MaxEpoch
    /\ last' = [op |-> "reload_conf", w |-> w]
    /\ UNCHANGED <<pgm_hash, state_decisions, alive, prepared_queries,
                   pgm_local_hash, local_state_generation,
                   before_shmem_exit_initialised,
                   metering_htab, nesting_level, hook_depth, owed, lockvars>>

\* pg_mentor_reload_conf(): move_mentor_status and nothing else
pg_mentor_reload_conf(w) ==
    /\ alive[w]
    /\ state_decisions < MaxEpoch
    /\ state_decisions' = move_mentor_status(state_decisions)
    /\ last' = [op |-> "reload_conf", w |-> w]
    /\ UNCHANGED <<pgm_hash, alive, prepared_queries, pgm_local_hash,
                   local_state_generation, before_shmem_exit_initialised,
                   metering_htab, nesting_level, hook_depth, owed,
                   lockvars>>

\* ------------------------------------------------------------ registry
\* an on_prepare that initialises the entry whether it found it or not
on_prepare_entry_fresh(entry, raw, cursor_options) ==
    NewEntry(IF entry # NoEntry THEN entry ELSE raw,
             get_plan_cache_mode(cursor_options))
\* an on_prepare that starts an entry nobody references from scratch
on_prepare_entry_recycle(entry, raw, cursor_options) ==
    IF entry # NoEntry /\ entry.refcounter > 0
    THEN [entry EXCEPT !.refcounter = @ + 1]
    ELSE NewEntry(IF entry # NoEntry THEN entry ELSE raw,
                  get_plan_cache_mode(cursor_options))
\* on_prepare on the shared entry: the entry afterwards
on_prepare_entry(entry, raw, cursor_options) ==
    IF entry # NoEntry
    THEN [entry EXCEPT !.refcounter = @ + 1]
    ELSE NewEntry(raw, get_plan_cache_mode(cursor_options))

\* PREPARE name AS ...: the engine stores the statement, then on_prepare
Prepare(w, n, q, RAW) ==
    /\ alive[w]
    /\ prepared_queries[w][n] = NoStmt
    /\ \E raw \in (IF q # 0 /\ pgm_hash[q] = NoEntry THEN RAW ELSE {NoEntry}) :
       LET ps == [queryId |-> q, cursor_options |-> {CURSOR_OPT_PARALLEL_OK}] IN
        /\ prepared_queries' = [prepared_queries EXCEPT ![w][n] = ps]
        /\ IF q = 0
           THEN /\ last' = [op |-> "prepare", w |-> w, res |-> -1,
                            waited |-> FALSE, absent |-> FALSE]
                /\ UNCHANGED <<pgm_hash, pgm_local_hash,
                               before_shmem_exit_initialised>>
           ELSE LET entry == on_prepare_entry(pgm_hash[q], raw, ps.cursor_options) IN
                /\ pgm_hash' = [pgm_hash EXCEPT ![q] = entry]
                /\ pgm_local_hash' = [pgm_local_hash EXCEPT ![w][q] = @ + 1]
                /\ before_shmem_exit_initialised' =
                        [before_shmem_exit_initialised EXCEPT ![w] = TRUE]
                /\ last' = [op |-> "prepare", w |-> w, res |-> entry.refcounter,
                            waited |-> (pc[w] # Idle /\ pc[w].waited),
                            absent |-> (pc[w] # Idle /\ pc[w].absent)]
    /\ UNCHANGED <<state_decisions, alive, local_state_generation, owed,
                   metering_htab, nesting_level, hook_depth>>
    /\ dshash_release_lock(w, q)

\* an on_deallocate(queryId) that forgets the shared entry
on_deallocate_one_local(hash, w, q) == hash

\* an on_deallocate(queryId) that removes the shared entry with the local one
on_deallocate_one_remove(hash, w, q) == [hash EXCEPT ![q] = NoEntry]

\* on_deallocate(queryId), queryId # 0, for a statement of the local registry
on_deallocate_one(hash, w, q) ==
    IF hash[q] # NoEntry
    THEN [hash EXCEPT ![q].refcounter = @ - 1]
    ELSE hash

\* on_deallocate(0) over a local registry: the shared table afterwards
on_deallocate_registry(hash, registry) ==
    [q \in AllIds |->
        IF q # 0 /\ registry[q] > 0 /\ hash[q] # NoEntry
        THEN [hash[q] EXCEPT !.refcounter = @ - registry[q]]
        ELSE hash[q]]

\* on_deallocate(0): every statement registered in the backend
on_deallocate_all(hash, w) == on_deallocate_registry(hash, pgm_local_hash[w])

\* DEALLOCATE name
Deallocate(w, n) ==
    /\ alive[w]
    /\ prepared_queries[w][n] # NoStmt
    /\ LET q == prepared_queries[w][n].queryId IN
        /\ q = 0 \/ pgm_local_hash[w][q] > 0
        /\ prepared_queries' = [prepared_queries EXCEPT ![w][n] = NoStmt]
        /\ IF q = 0
           THEN UNCHANGED <<pgm_hash, pgm_local_hash>>
           ELSE /\ pgm_local_hash' = [pgm_local_hash EXCEPT ![w][q] = @ - 1]
                /\ pgm_hash' = on_deallocate_one(pgm_hash, w, q)
        /\ owed' = [owed EXCEPT ![w][n] = NoOwed]
        /\ last' = [op |-> "deallocate", w |-> w]
        /\ dshash_release_lock(w, q)
    /\ UNCHANGED <<state_decisions, alive, local_state_generation,
                   before_shmem_exit_initialised,
                   metering_htab, nesting_level, hook_depth>>

\* a hook that runs on_deallocate(0) although the engine raised the error
utility_failed_dispose(w) ==
    [hash |-> on_deallocate_all(pgm_hash, w), registry |-> [q \in QueryIds |-> 0]]

\* A utility statement the engine rejects: the chain raises the error and
\* the rest of the hook is not run; both tables afterwards
utility_failed(w) == [hash |-> pgm_hash, registry |-> pgm_local_hash[w]]

\* DEALLOCATE name for a name that is not prepared: FetchPreparedStatement
\* gives NULL, queryId stays 0 and the engine raises the error
DeallocateMissing(w, n) ==
    /\ alive[w]
    /\ prepared_queries[w][n] = NoStmt
    /\ pgm_hash' = utility_failed(w).hash
    /\ pgm_local_hash' = [pgm_local_hash EXCEPT ![w] = utility_failed(w).registry]
    /\ last' = [op |-> "deallocate_error", w |-> w]
    /\ UNCHANGED <<state_decisions, alive, prepared_queries,
                   local_state_generation, before_shmem_exit_initialised,
                   metering_htab, nesting_level, hook_depth,
                   owed, lockvars>>

\* PREPARE name for a name that is prepared already: the engine raises the
\* error and on_prepare is not called
PrepareExisting(w, n) ==
    /\ alive[w]
    /\ prepared_queries[w][n] # NoStmt
    /\ pgm_hash' = utility_failed(w).hash
    /\ pgm_local_hash' = [pgm_local_hash EXCEPT ![w] = utility_failed(w).registry]
    /\ last' = [op |-> "prepare_error", w |-> w]
    /\ UNCHANGED <<state_decisions, alive, prepared_queries,
                   local_state_generation, before_shmem_exit_initialised,
                   metering_htab, nesting_level, hook_depth,
                   owed, lockvars>>

\* PREPARE name AS ... while the hook returns early (the extension is not
\* created in the database yet): the engine stores the statement and
\* on_prepare is not called
PrepareUntracked(w, n, q) ==
    /\ alive[w]
    /\ prepared_queries[w][n] = NoStmt
    /\ prepared_queries' =
            [prepared_queries EXCEPT ![w][n] =
                [queryId |-> q, cursor_options |-> {CURSOR_OPT_PARALLEL_OK}]]
    /\ last' = [op |-> "prepare_untracked", w |-> w]
    /\ UNCHANGED <<pgm_hash, state_decisions, alive, pgm_local_hash,
                   local_state_generation, before_shmem_exit_initialised,
                   metering_htab, nesting_level, hook_depth,
                   owed, lockvars>>

\* DEALLOCATE name of a statement whose queryid is not in the local
\* registry: hash_search(HASH_FIND) gives NULL and on_deallocate writes
\* le->refcounter before it looks at found.  The write through the null
\* pointer either kills the backend (the postmaster then ends every backend
\* and initialises the shared memory anew) or is not noticed, and then found
\* is false and nothing else is done.
DeallocateUntracked(w, n) ==
    /\ alive[w]
    /\ prepared_queries[w][n] # NoStmt
    /\ prepared_queries[w][n].queryId # 0
    /\ pgm_local_hash[w][prepared_queries[w][n].queryId] = 0
    /\ \E outcome \in {"crash", "unnoticed"} :
        IF outcome = "crash"
        THEN /\ alive' = [v \in Workers |-> FALSE]
             /\ prepared_queries' =
                    [v \in Workers |-> [m \in Names |-> NoStmt]]
             /\ pgm_hash' = [q \in AllIds |-> NoEntry]
             /\ state_decisions' = 1
             /\ owed' = [v \in Workers |-> [m \in Names |-> NoOwed]]
             /\ last' = [op |-> "crash", w |-> w]
        ELSE /\ prepared_queries' = [prepared_queries EXCEPT ![w][n] = NoStmt]
             /\ owed' = [owed EXCEPT ![w][n] = NoOwed]
             /\ last' = [op |-> "deallocate", w |-> w]
             /\ UNCHANGED <<alive, pgm_hash, state_decisions>>
    /\ UNCHANGED <<pgm_local_hash, local_state_generation,
                   before_shmem_exit_initialised,
                   metering_htab, nesting_level, hook_depth, lockvars>>

\* DEALLOCATE ALL
DeallocateAll(w) ==
    /\ alive[w]
    /\ prepared_queries' = [prepared_queries EXCEPT ![w] = [n \in Names |-> NoStmt]]
    /\ pgm_hash' = on_deallocate_all(pgm_hash, w)
    /\ pgm_local_hash' = [pgm_local_hash EXCEPT ![w] = [q \in QueryIds |-> 0]]
    /\ owed' = [owed EXCEPT ![w] = [n \in Names |-> NoOwed]]
    /\ last' = [op |-> "deallocate_all", w |-> w]
    /\ UNCHANGED <<state_decisions, alive, local_state_generation,
                   before_shmem_exit_initialised,
                   metering_htab, nesting_level, hook_depth,
                   lockvars>>

\* The backend exits: before_backend_shutdown, if it was registered
before_backend_shutdown(w) ==
    /\ alive[w]
    /\ alive' = [alive EXCEPT ![w] = FALSE]
    /\ prepared_queries' = [prepared_queries EXCEPT ![w] = [n \in Names |-> NoStmt]]
    /\ IF before_shmem_exit_initialised[w]
       THEN /\ pgm_hash' = on_deallocate_all(pgm_hash, w)
            /\ pgm_local_hash' = [pgm_local_hash EXCEPT ![w] = [q \in QueryIds |-> 0]]
       ELSE UNCHANGED <<pgm_hash, pgm_local_hash>>
    /\ owed' = [owed EXCEPT ![w] = [n \in Names |-> NoOwed]]
    /\ last' = [op |-> "exit", w |-> w]
    /\ UNCHANGED <<state_decisions, local_state_generation,
                   before_shmem_exit_initialised,
                   metering_htab, nesting_level, hook_depth,
                   lockvars>>

\* A new backend takes the slot: _PG_init and the static initialisers
PG_init(w) ==
    /\ ~alive[w]
    /\ alive' = [alive EXCEPT ![w] = TRUE]
    /\ pgm_local_hash' = [pgm_local_hash EXCEPT ![w] = [q \in QueryIds |-> 0]]
    /\ local_state_generation' = [local_state_generation EXCEPT ![w] = 0]
    /\ before_shmem_exit_initialised' =
            [before_shmem_exit_initialised EXCEPT ![w] = FALSE]
    /\ nesting_level' = [nesting_level EXCEPT ![w] = 0]
    /\ hook_depth' = [hook_depth EXCEPT ![w] = 0]
    /\ last' = [op |-> "start", w |-> w]
    /\ UNCHANGED <<pgm_hash, state_decisions, prepared_queries, owed,
                   metering_htab, lockvars>>

\* ------------------------------------------------------------ telemetry
\* a pgm_enabled that does not look at the level
pgm_enabled_any(level) == TRUE

\* pgm_enabled(level) in a backend that is not a parallel worker
pgm_enabled(level) == level = 0

\* on_execute on the entry: one sample of nblocks (int64) and exec_time (ms)
on_execute(entry, nblocks, exec_time) ==
    LET idx == (entry.next_idx % MENTOR_TBL_ENTRY_STAT_SIZE) + 1
        full == ring_buffer_size(entry) = MENTOR_TBL_ENTRY_STAT_SIZE
    IN  [entry EXCEPT
            !.avg_nblocks =
                IF full
                THEN @ + Scale * TruncDiv(nblocks - entry.nblocks[idx],
                                          MENTOR_TBL_ENTRY_STAT_SIZE)
                ELSE (@ * entry.next_idx + nblocks * Scale) \div (entry.next_idx + 1),
            !.avg_exec_time =
                IF full
                THEN @ + (exec_time * Scale - entry.times[idx])
                            \div MENTOR_TBL_ENTRY_STAT_SIZE
                ELSE (@ * entry.next_idx + exec_time * Scale) \div (entry.next_idx + 1),
            !.nblocks[idx] = nblocks,
            !.times[idx] = exec_time * Scale,
            !.next_idx = @ + 1]

Executed == SumOver([q \in AllIds |->
                        IF pgm_hash[q] = NoEntry THEN 0 ELSE pgm_hash[q].next_idx],
                    AllIds)

\* pgm_ExecutorEnd of a top-level query the backend knows as prepared, while
\* fewer than max executions are recorded
ExecutorEndUpTo(w, q, nblocks, exec_time, max) ==
    /\ alive[w]
    /\ pgm_enabled(nesting_level[w])
    /\ q # 0
    /\ pgm_local_hash[w][q] > 0
    /\ Executed < max
    /\ pgm_hash' = [pgm_hash EXCEPT ![q] = on_execute(@, nblocks, exec_time)]
    /\ last' = [op |-> "execute", w |-> w]
    /\ UNCHANGED <<state_decisions, alive, prepared_queries, pgm_local_hash,
                   local_state_generation, before_shmem_exit_initialised,
                   metering_htab, nesting_level, hook_depth, owed>>
    /\ dshash_release_lock(w, q)

ExecutorEnd(w, q, nblocks, exec_time) ==
    ExecutorEndUpTo(w, q, nblocks, exec_time, MaxExec)

\* pgm_planner of a top-level query: check_state, then the planning time of
\* a query the backend knows as prepared
Planner(w, q, duration) ==
    /\ alive[w]
    /\ pgm_enabled(nesting_level[w])
    /\ q # 0
    /\ LET r == check_state(w) IN
        /\ prepared_queries' = [prepared_queries EXCEPT ![w] = r.pq]
        /\ local_state_generation' = [local_state_generation EXCEPT ![w] = r.gen]
        /\ owed' = OwedSynced(owed, w)
    /\ pgm_hash' = IF pgm_local_hash[w][q] > 0
                   THEN [pgm_hash EXCEPT ![q].plan_time = duration * Scale]
                   ELSE pgm_hash
    /\ last' = [op |-> "planner", w |-> w]
    /\ UNCHANGED <<state_decisions, alive, pgm_local_hash,
                   before_shmem_exit_initialised,
                   metering_htab, nesting_level, hook_depth,
                   lockvars>>

\* ------------------------------------------------------------ set mode
\* a pg_mentor_set_plan_mode_int that stores nothing
pg_mentor_set_plan_mode_int_idle(entry, status, ref_exec_time, ref_nblocks, fixed) ==
    [entry |-> entry, error |-> FALSE]
\* a pg_mentor_set_plan_mode_int that stores the mode without the references
pg_mentor_set_plan_mode_int_modeonly(entry, status, ref_exec_time, ref_nblocks, fixed) ==
    [entry |-> [entry EXCEPT !.plan_cache_mode = status, !.fixed = fixed],
     error |-> entry.nblocks[1] < 0 /\ (ref_nblocks < 0 \/ ref_exec_time < 0)]
\* pg_mentor_set_plan_mode_int: the entry afterwards, and whether it raised
\* the error (the entry keeps what was written before the ereport)
pg_mentor_set_plan_mode_int(entry, status, ref_exec_time, ref_nblocks, fixed) ==
    LET e1 == [entry EXCEPT !.plan_cache_mode = status, !.fixed = fixed] IN
    IF entry.nblocks[1] < 0 /\ (ref_nblocks < 0 \/ ref_exec_time < 0)
    THEN [entry |-> e1, error |-> TRUE]
    ELSE [entry |-> [e1 EXCEPT
                        !.ref_nblocks = IF ref_nblocks > 0 THEN ref_nblocks
                                        ELSE entry.avg_nblocks,
                        !.ref_exec_time = IF ref_exec_time > 0 THEN ref_exec_time
                                          ELSE entry.avg_exec_time],
          error |-> FALSE]

\* pg_mentor_set_plan_mode(queryId, status, ref_exec_time, ref_nblocks, fixed)
pg_mentor_set_plan_mode(w, q, status, ref_exec_time, ref_nblocks, fixed, RAW) ==
    /\ alive[w]
    /\ state_decisions < MaxEpoch
    /\ \E raw \in (IF pgm_hash[q] = NoEntry THEN RAW ELSE {NoEntry}) :
       LET entry == IF pgm_hash[q] # NoEntry THEN pgm_hash[q] ELSE raw
           r == pg_mentor_set_plan_mode_int(entry, status, ref_exec_time * Scale,
                                            ref_nblocks * Scale, fixed)
       IN /\ pgm_hash' = [pgm_hash EXCEPT ![q] = r.entry]
          /\ state_decisions' = IF r.error THEN state_decisions
                                ELSE move_mentor_status(state_decisions)
          /\ owed' = IF r.error
                     THEN OwedKept(owed, pgm_hash', prepared_queries)
                     ELSE OwedSet(owed, w, q, status, prepared_queries)
          /\ last' = [op |-> "set_plan_mode", w |-> w, q |-> q,
                      res |-> IF r.error THEN "error" ELSE "t"]
    /\ UNCHANGED <<alive, prepared_queries, pgm_local_hash,
                   local_state_generation, before_shmem_exit_initialised,
                   metering_htab, nesting_level, hook_depth>>
    /\ dshash_release_lock(w, q)

\* ------------------------------------------------------------ reset
\* a reset that only gives up the decision and keeps the statistics
reset_entry_mode_only(entry) ==
    [entry EXCEPT !.plan_cache_mode = 0, !.fixed = FALSE]
reset_entry(entry) ==
    [entry EXCEPT
        !.plan_cache_mode = 0,
        !.fixed = FALSE,
        !.next_idx = 0,
        !.ref_exec_time = -Scale,
        !.ref_nblocks = -Scale,
        !.avg_exec_time = 0,
        !.avg_nblocks = 0,
        !.nblocks = [i \in StatIdx |-> -1],
        !.times = [i \in StatIdx |-> -Scale]]

\* a counter of the entries that carried a decision
reset_counter_forced(hash) ==
    Cardinality({q \in AllIds : hash[q] # NoEntry /\ hash[q].plan_cache_mode # 0})
\* the counter pg_mentor_reset returns
reset_counter(hash) == Cardinality({q \in AllIds : hash[q] # NoEntry})

\* a reset that also starts state_decisions over
pg_mentor_reset_restart(w) ==
    /\ alive[w]
    /\ pgm_hash' = [q \in AllIds |->
                        IF pgm_hash[q] = NoEntry THEN NoEntry
                        ELSE reset_entry(pgm_hash[q])]
    /\ state_decisions' = 1
    /\ owed' = OwedKept(owed, pgm_hash', prepared_queries)
    /\ last' = [op |-> "reset", w |-> w, res |-> reset_counter(pgm_hash)]
    /\ UNCHANGED <<alive, prepared_queries, pgm_local_hash,
                   local_state_generation, before_shmem_exit_initialised,
                   metering_htab, nesting_level, hook_depth, lockvars>>

pg_mentor_reset(w) ==
    /\ alive[w]
    /\ pgm_hash' = [q \in AllIds |->
                        IF pgm_hash[q] = NoEntry THEN NoEntry
                        ELSE reset_entry(pgm_hash[q])]
    /\ owed' = OwedKept(owed, pgm_hash', prepared_queries)
    /\ last' = [op |-> "reset", w |-> w, res |-> reset_counter(pgm_hash),
                forced |-> Cardinality({q \in AllIds :
                                /\ pgm_hash[q] # NoEntry
                                /\ pgm_hash[q].plan_cache_mode # 0}),
                sampled |-> Cardinality({q \in AllIds :
                                /\ pgm_hash[q] # NoEntry
                                /\ ring_buffer_size(pgm_hash[q]) > 0})]
    /\ UNCHANGED <<state_decisions, alive, prepared_queries, pgm_local_hash,
                   local_state_generation, before_shmem_exit_initialised,
                   metering_htab, nesting_level, hook_depth,
                   lockvars>>

\* ------------------------------------------------------------ reconsider
\* calculateStandardDeviation(N, data) is sqrt(values / N) with
\* values = sum (data[i] - mean)^2 over the first N elements; its square is
\* VarianceNum / (N * N).
VarianceNum(N, data) ==
    N * SumTo([i \in StatIdx |-> data[i] * data[i]], N)
        - SumTo(data, N) * SumTo(data, N)

\* stddev / entry->avg_nblocks <= num / den, for avg_nblocks > 0
CoeffVarLE(entry, statnum, num, den) ==
    LET g == GCD(entry.avg_nblocks, Scale)
        a == entry.avg_nblocks \div g
        s == Scale \div g
    IN  VarianceNum(statnum, entry.nblocks) * den * den * s * s
            <= num * num * a * a * statnum * statnum

\* a / b > 1.0 in doubles, for a > 0: a / 0 is +infinity
RatioAboveOne(a, b) ==
    IF b > 0 THEN a > b ELSE b = 0

\* a strategy that reverts every forced generic entry that has samples,
\* fixed or not
reconsider_step_any(entry) ==
    IF /\ ring_buffer_size(entry) > 1 /\ entry.avg_nblocks > 0
       /\ entry.plan_cache_mode = 1 /\ entry.ref_exec_time > 0
    THEN 2 ELSE 0
\* The step of the strategy the entry falls under: 0 when it is skipped
\* the step of the strategy that applies to the entry, 0 if none does
reconsider_step(entry) ==
    LET statnum == ring_buffer_size(entry) IN
    IF entry.plan_cache_mode < 0 THEN 0
    ELSE IF entry.avg_nblocks <= 0 \/ statnum <= 1 THEN 0
    ELSE IF /\ entry.plan_cache_mode = 0 /\ ~entry.fixed
            /\ entry.ref_exec_time < 0
            /\ entry.avg_exec_time < entry.plan_time
            /\ CoeffVarLE(entry, statnum, 3, 10)
    THEN 1
    ELSE IF /\ entry.plan_cache_mode = 1 /\ ~entry.fixed
            /\ entry.ref_exec_time > 0
            /\ entry.avg_exec_time < entry.plan_time * 2
            /\ RatioAboveOne(entry.avg_nblocks, entry.ref_nblocks)
    THEN 2
    ELSE IF /\ entry.plan_cache_mode = 0 /\ ~entry.fixed
            /\ entry.ref_exec_time <= 0
            /\ entry.avg_exec_time > entry.plan_time
            /\ ~CoeffVarLE(entry, statnum, 1, 2)
    THEN 3
    ELSE IF /\ entry.plan_cache_mode = 2 /\ ~entry.fixed
            /\ entry.ref_exec_time > 0
            /\ (\/ entry.avg_exec_time < entry.plan_time * 2
                \/ entry.ref_nblocks < 2 * entry.avg_nblocks)
            /\ CoeffVarLE(entry, statnum, 3, 10)
    THEN 4
    ELSE 0

\* what the step passes to pg_mentor_set_plan_mode_int
\* a strategy whose every step forces the custom plan
step_mode_custom(step) == 2
step_mode(step) == IF step \in {1, 4} THEN 1 ELSE 2
step_fixed(step) == FALSE

\* The pass over the table, in the order of the scan (here: by queryid).
\* It ends at the first entry whose switch raises the error.
RECURSIVE reconsider_scan(_, _, _)
reconsider_scan(acc, q, maxq) ==
    IF q > maxq \/ acc.error THEN acc
    ELSE IF acc.hash[q] = NoEntry THEN reconsider_scan(acc, q + 1, maxq)
    ELSE LET entry == acc.hash[q]
             step == reconsider_step(entry)
             r == pg_mentor_set_plan_mode_int(entry, step_mode(step),
                                              -Scale, -Scale, step_fixed(step))
         IN  IF step = 0
             THEN reconsider_scan([acc EXCEPT !.nvalues = @ + 1,
                                              !.steps[q] = 0], q + 1, maxq)
             ELSE reconsider_scan(
                    [hash |-> [acc.hash EXCEPT ![q] = r.entry],
                     decisions |-> IF r.error THEN acc.decisions
                                   ELSE move_mentor_status(acc.decisions),
                     nvalues |-> acc.nvalues + 1,
                     to_generic |-> IF ~r.error /\ step_mode(step) = 1
                                    THEN acc.to_generic + 1 ELSE acc.to_generic,
                     to_custom |-> IF ~r.error /\ step_mode(step) = 2
                                   THEN acc.to_custom + 1 ELSE acc.to_custom,
                     switched |-> IF r.error THEN acc.switched
                                  ELSE acc.switched \cup {q},
                     steps |-> [acc.steps EXCEPT ![q] = step],
                     error |-> r.error],
                    q + 1, maxq)

MaxId == CHOOSE q \in AllIds : \A p \in AllIds : p <= q

\* reconsider_ps_modes(), while state_decisions stays within max
reconsider_ps_modes_upto(w, max) ==
    /\ alive[w]
    /\ LET r == reconsider_scan([hash |-> pgm_hash, decisions |-> state_decisions,
                                 nvalues |-> 0, to_generic |-> 0, to_custom |-> 0,
                                 switched |-> {},
                                 steps |-> [q \in AllIds |-> -1],
                                 error |-> FALSE], 0, MaxId)
       IN /\ r.decisions <= max
          /\ pgm_hash' = r.hash
          /\ state_decisions' = r.decisions
          /\ owed' = OwedKept([w1 \in Workers |-> [n \in Names |->
                                 IF /\ prepared_queries[w1][n] # NoStmt
                                    /\ prepared_queries[w1][n].queryId \in r.switched
                                 THEN NoOwed ELSE owed[w1][n]]],
                              pgm_hash', prepared_queries)
          /\ last' = IF r.error
                     THEN [op |-> "reconsider", w |-> w, error |-> TRUE]
                     ELSE [op |-> "reconsider", w |-> w, error |-> FALSE,
                           to_generic |-> r.to_generic,
                           to_custom |-> r.to_custom,
                           unchanged |-> r.nvalues - r.to_generic - r.to_custom,
                           switched |-> r.switched,
                           steps |-> r.steps]
    /\ UNCHANGED <<alive, prepared_queries, pgm_local_hash,
                   local_state_generation, before_shmem_exit_initialised,
                   metering_htab, nesting_level, hook_depth,
                   lockvars>>

reconsider_ps_modes(w) == reconsider_ps_modes_upto(w, MaxEpoch)

\* ------------------------------------------------------------ the system
\* The calls of the backends W, on the statement names N and the query
\* identifiers Q.
Lifecycle(W, N, Q, RAW) ==
    \/ \E w \in W, n \in N, q \in Q : Prepare(w, n, q, RAW)
    \/ \E w \in W, n \in N : Deallocate(w, n)
    \/ \E w \in W : DeallocateAll(w)

Backends(W) ==
    \/ \E w \in W : before_backend_shutdown(w)
    \/ \E w \in W : PG_init(w)

Sync(W) ==
    \/ \E w \in W : CheckState(w)
    \/ \E w \in W : pg_mentor_reload_conf(w)

Manual(W, Q, ST, REF, FX, RAW) ==
    \/ \E w \in W, q \in Q, status \in ST, ref \in REF, fixed \in FX :
            pg_mentor_set_plan_mode(w, q, status, ref[1], ref[2], fixed, RAW)
    \/ \E w \in W : pg_mentor_reset(w)

Telemetry(W, Q, NB, ET, PT) ==
    \/ \E w \in W, q \in Q, nblocks \in NB, exec_time \in ET :
            ExecutorEnd(w, q, nblocks, exec_time)
    \/ \E w \in W, q \in Q, duration \in PT : Planner(w, q, duration)
    \/ \E w \in W : reconsider_ps_modes(w)

\* Two backends, one query: statements come and go, backends exit and
\* start, the mode is set by hand, reset and reloaded, and every parsed query
\* goes through check_state.  Every call runs from its lock to its release.
Next ==
    \/ Lifecycle(Workers, {"a"}, {1}, RawEntries({0}, {FALSE}, {0}, {0}))
    \/ Backends(Workers)
    \/ Sync(Workers)
    \/ Manual(Workers, {1}, Modes, RefArgs, {FALSE},
              RawEntries({0, 1}, {FALSE}, {0, -1}, {0}))

Spec == Init /\ [][Next]_vars

\* One backend, one query: executions are recorded, planning is timed, and
\* the mode is reconsidered, set by hand and reset.
NextSwitch ==
    \/ Lifecycle({1}, {"a"}, {1}, RawEntries({0}, BOOLEAN, {0}, {0}))
    \/ Telemetry({1}, {1}, NBlocksVals, ExecTimes, PlanTimes)
    \/ Manual({1}, {1}, Modes, RefArgs, BOOLEAN,
              RawEntries({0, 1}, {FALSE}, {0}, {0}))

SpecSwitch == Init /\ [][NextSwitch]_vars

\* One backend, two queries, two statement names: the table fills up, the
\* modes are set by hand and reset.
NextTable ==
    \/ Lifecycle({1}, Names, QueryIds, RawEntries({0}, {FALSE}, {0}, {0}))
    \/ \E q \in QueryIds : ExecutorEnd(1, q, 1, 1)
    \/ Manual({1}, QueryIds, {0, 1}, RefArgs, {TRUE},
              RawEntries({0}, {FALSE}, {-1}, {0}))

SpecTable == Init /\ [][NextTable]_vars

\* One backend, two queries with samples of 4 blocks and 1 ms, a planning
\* time of 2 ms: entries are left in auto mode or forced by hand, and the
\* modes are reconsidered over the whole table.
NextTally ==
    \/ \E n \in Names, q \in QueryIds :
            Prepare(1, n, q, RawEntries({0}, {FALSE}, {0}, {0}))
    \/ \E q \in QueryIds : ExecutorEndUpTo(1, q, 4, 1, MaxTally)
    \/ \E q \in QueryIds : Planner(1, q, 2)
    \/ \E q \in QueryIds, fixed \in BOOLEAN :
            pg_mentor_set_plan_mode(1, q, 1, 2, 2, fixed,
                                    RawEntries({0}, {FALSE}, {-1}, {0}))
    \/ reconsider_ps_modes(1)

SpecTally == Init /\ [][NextTally]_vars

\* One backend, one query: the ring of the entry fills up and wraps, the
\* entry is created by PREPARE or by hand, and reset.
NextRing ==
    \/ Prepare(1, "a", 1, RawEntries({0}, {FALSE}, {0}, {0}))
    \/ Deallocate(1, "a")
    \/ \E nblocks \in NBlocksVals : ExecutorEndUpTo(1, 1, nblocks, 1, MaxRing)
    \/ pg_mentor_set_plan_mode(1, 1, 1, 2, 2, FALSE,
                               RawEntries({0}, {FALSE}, {0, -1}, {0}))
    \/ pg_mentor_reset(1)

SpecRing == Init /\ [][NextRing]_vars

\* One backend, one query planned in 2 ms: it is forced to the generic plan
\* by hand with reference values, executed, and reconsidered pass after pass.
NextRevert ==
    \/ Prepare(1, "a", 1, RawEntries({0}, {FALSE}, {0}, {0}))
    \/ \E nblocks \in NBlocksVals : ExecutorEndUpTo(1, 1, nblocks, 1, MaxTally)
    \/ Planner(1, 1, 2)
    \/ pg_mentor_set_plan_mode(1, 1, 1, 2, 2, FALSE,
                               RawEntries({0}, {FALSE}, {-1}, {0}))
    \/ pg_mentor_reset(1)
    \/ reconsider_ps_modes_upto(1, MaxRevert)

SpecRevert == Init /\ [][NextRevert]_vars

\* One backend, one query whose entry may be created by
\* pg_mentor_set_plan_mode in zeroed memory before the statement is
\* prepared; executions of 20 blocks and 1 or 30 ms, planned in 2 ms.
NextZeroed ==
    \/ pg_mentor_set_plan_mode(1, 1, 0, -1, -1, FALSE,
                               RawEntries({0}, {FALSE}, {0}, {0}))
    \/ Prepare(1, "a", 1, RawEntries({0}, {FALSE}, {0}, {0}))
    \/ \E exec_time \in {1, 30} : ExecutorEndUpTo(1, 1, 20, exec_time, MaxExec)
    \/ Planner(1, 1, 2)
    \/ pg_mentor_reset(1)
    \/ reconsider_ps_modes_upto(1, MaxRevert)

SpecZeroed == Init /\ [][NextZeroed]_vars

\* Two backends, two queries, two statement names: statements are prepared
\* with and without the hook being active, utility statements fail in the
\* engine, backends exit and start.
NextUtility ==
    \/ Lifecycle(Workers, Names, QueryIds, RawEntries({0}, {FALSE}, {0}, {0}))
    \/ \E w \in Workers, n \in Names : DeallocateMissing(w, n)
    \/ \E w \in Workers, n \in Names : PrepareExisting(w, n)
    \/ \E w \in Workers, n \in Names, q \in QueryIds : PrepareUntracked(w, n, q)
    \/ \E w \in Workers, n \in Names : DeallocateUntracked(w, n)
    \/ Backends(Workers)

SpecUtility == Init /\ [][NextUtility]_vars

\* One backend, two queries: the mode is set by hand with any integer as
\* the status, statements come and go and go through check_state.
NextStatus ==
    \/ Lifecycle({1}, {"a"}, QueryIds, RawEntries({0}, {FALSE}, {0}, {0}))
    \/ Sync({1})
    \/ Manual({1}, QueryIds, Modes \cup BadModes, RefArgs, {FALSE},
              RawEntries({0}, {FALSE}, {0, -1}, {0}))

SpecStatus == Init /\ [][NextStatus]_vars

\* ------------------------------------------------------------ lock steps
\* A call on the entry of queryid q, step by step: dshash_find_or_insert
\* takes the partition lock of the entry exclusively, or waits for it
\* (LWLockAcquire); the call then works on the entry and releases the lock.
dshash_find_or_insert(w, call) ==
    /\ alive[w]
    /\ pc[w] = Idle
    /\ IF partition_lock[call.q] = 0
       THEN /\ partition_lock' = [partition_lock EXCEPT ![call.q] = w]
            /\ pc' = [pc EXCEPT ![w] =
                        [call EXCEPT !.at = "locked",
                                     !.absent = (pgm_hash[call.q] = NoEntry)]]
       ELSE /\ pc' = [pc EXCEPT ![w] =
                        [call EXCEPT !.at = "waiting", !.waited = TRUE,
                                     !.absent = (pgm_hash[call.q] = NoEntry)]]
            /\ UNCHANGED partition_lock
    /\ last' = [op |-> "enter", w |-> w]
    /\ UNCHANGED <<pgm_hash, state_decisions, alive, prepared_queries,
                   pgm_local_hash, local_state_generation,
                   before_shmem_exit_initialised,
                   metering_htab, nesting_level, hook_depth, owed>>

\* the holder has released the lock: the waiting backend gets it
LWLockAcquired(w) ==
    /\ pc[w] # Idle
    /\ pc[w].at = "waiting"
    /\ partition_lock[pc[w].q] = 0
    /\ partition_lock' = [partition_lock EXCEPT ![pc[w].q] = w]
    /\ pc' = [pc EXCEPT ![w].at = "locked"]
    /\ last' = [op |-> "granted", w |-> w]
    /\ UNCHANGED <<pgm_hash, state_decisions, alive, prepared_queries,
                   pgm_local_hash, local_state_generation,
                   before_shmem_exit_initialised,
                   metering_htab, nesting_level, hook_depth, owed>>

\* the rest of pg_mentor_set_plan_mode, the lock held
SetPlanModeLocked(w, RAW) ==
    /\ pc[w] # Idle
    /\ pc[w].at = "locked"
    /\ pc[w].op = "set_plan_mode"
    /\ pg_mentor_set_plan_mode(w, pc[w].q, pc[w].status, pc[w].ref[1],
                               pc[w].ref[2], pc[w].fixed, RAW)

\* the rest of on_prepare, the lock held
PrepareLocked(w, RAW) ==
    /\ pc[w] # Idle
    /\ pc[w].at = "locked"
    /\ pc[w].op = "prepare"
    /\ Prepare(w, pc[w].n, pc[w].q, RAW)

SetModeCalls(Q, ST, REF, FX) ==
    {[op |-> "set_plan_mode", q |-> q, status |-> st, ref |-> ref,
      fixed |-> fx, n |-> "", at |-> "call", waited |-> FALSE,
      absent |-> FALSE] :
        q \in Q, st \in ST, ref \in REF, fx \in FX}

PrepareCalls(N, Q) ==
    {[op |-> "prepare", q |-> q, status |-> 0, ref |-> <<-1, -1>>,
      fixed |-> FALSE, n |-> n, at |-> "call", waited |-> FALSE,
      absent |-> FALSE] :
        n \in N, q \in Q}

\* Two backends, one query, the partition lock of its entry: PREPARE and
\* pg_mentor_set_plan_mode take the lock, work and release it, one step each;
\* DEALLOCATE runs when the lock is free.
NextLock ==
    \/ \E w \in Workers, call \in SetModeCalls({1}, {1, 2}, RefArgs, {FALSE}) :
            dshash_find_or_insert(w, call)
    \/ \E w \in Workers, call \in PrepareCalls({"a"}, {1}) :
            prepared_queries[w][call.n] = NoStmt /\ dshash_find_or_insert(w, call)
    \/ \E w \in Workers : LWLockAcquired(w)
    \/ \E w \in Workers : SetPlanModeLocked(w, RawEntries({1}, {FALSE}, {-1}, {0}))
    \/ \E w \in Workers : PrepareLocked(w, RawEntries({0}, {FALSE}, {0}, {0}))
    \/ \E w \in Workers :
            pc[w] = Idle /\ partition_lock[1] = 0 /\ Deallocate(w, "a")

SpecLock == Init /\ [][NextLock]_vars

\* ------------------------------------------- reconsider_ps_modes, by steps
\* The backends that hold the partition of queryid q, in either mode
Holders(q) ==
    {w \in Workers : /\ pc[w] # Idle /\ pc[w].q = q
                     /\ pc[w].at \notin {"call", "waiting"}}

\* The backends that are writing the entry of queryid q
Writers(q) ==
    {w \in Holders(q) : pc[w].at \in {"locked", "examined", "mode_written"}}

\* dshash_seq_init(&hash_seq, pgm_hash, false) and dshash_seq_next: the
\* partition is locked in shared mode, which only an exclusive holder delays
ReconsiderSeqNext(w, q) ==
    /\ alive[w]
    /\ pc[w] = Idle
    /\ pgm_hash[q] # NoEntry
    /\ partition_lock[q] = 0
    /\ pc' = [pc EXCEPT ![w] =
                [op |-> "reconsider", q |-> q, at |-> "shared", step |-> 0]]
    /\ last' = [op |-> "seq_next", w |-> w]
    /\ UNCHANGED <<pgm_hash, state_decisions, alive, prepared_queries,
                   pgm_local_hash, local_state_generation,
                   before_shmem_exit_initialised,
                   metering_htab, nesting_level, hook_depth,
                   owed, partition_lock>>

\* the conditions of the steps are evaluated on the entry; an entry that
\* matches no step ends the pass
ReconsiderExamine(w) ==
    /\ pc[w] # Idle
    /\ pc[w].op = "reconsider"
    /\ pc[w].at = "shared"
    /\ LET step == reconsider_step(pgm_hash[pc[w].q]) IN
       IF step = 0
       THEN /\ pc' = [pc EXCEPT ![w] = Idle]
            /\ last' = [op |-> "reconsider", w |-> w, error |-> FALSE,
                        to_generic |-> 0, to_custom |-> 0, unchanged |-> 1,
                        switched |-> {},
                        steps |-> [q \in AllIds |->
                                    IF q = pc[w].q THEN 0 ELSE -1]]
       ELSE /\ pc' = [pc EXCEPT ![w].at = "examined", ![w].step = step]
            /\ last' = [op |-> "examined", w |-> w]
    /\ UNCHANGED <<pgm_hash, state_decisions, alive, prepared_queries,
                   pgm_local_hash, local_state_generation,
                   before_shmem_exit_initialised,
                   metering_htab, nesting_level, hook_depth,
                   owed, partition_lock>>

\* pg_mentor_set_plan_mode_int, first half: plan_cache_mode and fixed
ReconsiderWriteMode(w) ==
    /\ pc[w] # Idle
    /\ pc[w].op = "reconsider"
    /\ pc[w].at = "examined"
    /\ pgm_hash' = [pgm_hash EXCEPT
                        ![pc[w].q].plan_cache_mode = step_mode(pc[w].step),
                        ![pc[w].q].fixed = step_fixed(pc[w].step)]
    /\ pc' = [pc EXCEPT ![w].at = "mode_written"]
    /\ owed' = OwedKept([w1 \in Workers |-> [n \in Names |->
                            IF /\ prepared_queries[w1][n] # NoStmt
                               /\ prepared_queries[w1][n].queryId = pc[w].q
                            THEN NoOwed ELSE owed[w1][n]]],
                        pgm_hash', prepared_queries)
    /\ last' = [op |-> "mode_written", w |-> w]
    /\ UNCHANGED <<state_decisions, alive, prepared_queries, pgm_local_hash,
                   local_state_generation, before_shmem_exit_initialised,
                   metering_htab, nesting_level, hook_depth,
                   partition_lock>>

\* pg_mentor_set_plan_mode_int, second half: the reference values and
\* move_mentor_status; dshash_seq_term then releases the partition
ReconsiderWriteRef(w) ==
    /\ pc[w] # Idle
    /\ pc[w].op = "reconsider"
    /\ pc[w].at = "mode_written"
    /\ state_decisions < MaxEpoch
    /\ LET q == pc[w].q
           entry == pgm_hash[q]
       IN  /\ pgm_hash' = [pgm_hash EXCEPT
                            ![q].ref_nblocks = entry.avg_nblocks,
                            ![q].ref_exec_time = entry.avg_exec_time]
           /\ last' = [op |-> "reconsider", w |-> w, error |-> FALSE,
                       to_generic |-> IF step_mode(pc[w].step) = 1 THEN 1 ELSE 0,
                       to_custom |-> IF step_mode(pc[w].step) = 2 THEN 1 ELSE 0,
                       unchanged |-> 0,
                       switched |-> {q},
                       steps |-> [o \in AllIds |->
                                    IF o = q THEN pc[w].step ELSE -1]]
    /\ state_decisions' = move_mentor_status(state_decisions)
    /\ pc' = [pc EXCEPT ![w] = Idle]
    /\ UNCHANGED <<alive, prepared_queries, pgm_local_hash,
                   local_state_generation, before_shmem_exit_initialised,
                   metering_htab, nesting_level, hook_depth,
                   owed, partition_lock>>

\* Two backends, one query with two samples of 4 blocks and 1 ms and a
\* planning time of 2 ms: the passes of reconsider_ps_modes go step by step
\* under their shared lock, the calls that lock exclusively run when no
\* backend holds the partition, and check_state reads under its shared lock.
NextShared ==
    \/ \E w \in Workers :
            /\ Holders(1) = {}
            /\ Prepare(w, "a", 1, RawEntries({0}, {FALSE}, {0}, {0}))
    \/ \E w \in Workers :
            Holders(1) = {} /\ ExecutorEndUpTo(w, 1, 4, 1, MaxExec)
    \/ \E w \in Workers : Holders(1) = {} /\ Planner(w, 1, 2)
    \/ \E w \in Workers : ReconsiderSeqNext(w, 1)
    \/ \E w \in Workers : ReconsiderExamine(w)
    \/ \E w \in Workers : ReconsiderWriteMode(w)
    \/ \E w \in Workers : ReconsiderWriteRef(w)
    \/ \E w \in Workers : CheckState(w)

SpecShared == Init /\ [][NextShared]_vars

\* Two backends, one query, statements coming and going, backends exiting
\* and starting, pg_mentor_set_plan_mode and pg_mentor_reset; the memory that
\* dshash_find_or_insert hands to pg_mentor_set_plan_mode holds any refcounter
\* image.  refcounter is a uint32: the model keeps it as the 32-bit integer
\* with the same bits, so that UINT32_MAX is -1 and UINT32_MAX - 1 is -2, and
\* ++ and -- wrap as they do in C.
NextWrap ==
    \/ Lifecycle(Workers, {"a"}, {1}, RawEntries({0}, {FALSE}, {0}, {0}))
    \/ Backends(Workers)
    \/ Manual(Workers, {1}, {1}, {<<2, 2>>}, {FALSE},
              RawEntries({0, 1, -1, -2}, {FALSE}, {0}, {0}))

SpecWrap == Init /\ [][NextWrap]_vars

\* Two backends, one query: statements are prepared and deallocated, a mode
\* is stored by hand with reference values (so that the call succeeds and
\* moves state_decisions), and every parsed query goes through check_state.
NextCaughtUp ==
    \/ Lifecycle(Workers, {"a"}, {1}, RawEntries({0}, {FALSE}, {0}, {0}))
    \/ Sync(Workers)
    \/ \E w \in Workers, status \in {1, 2} :
            pg_mentor_set_plan_mode(w, 1, status, 2, 2, FALSE,
                                    RawEntries({0}, {FALSE}, {0}, {0}))

SpecCaughtUp == Init /\ [][NextCaughtUp]_vars

\* One backend, one query planned in 2 ms: the mode is stored by hand with
\* reference values of 0 or 2 (the call accepts every value that is not
\* negative), the statement is executed and the modes are reconsidered.
NextReference ==
    \/ Prepare(1, "a", 1, RawEntries({0}, {FALSE}, {0}, {0}))
    \/ \E status \in Modes, ref \in {<<0, 0>>, <<2, 2>>} :
            pg_mentor_set_plan_mode(1, 1, status, ref[1], ref[2], FALSE,
                                    RawEntries({0}, {FALSE}, {0, -1}, {0}))
    \/ Telemetry({1}, {1}, NBlocksVals, ExecTimes, PlanTimes)

SpecReference == Init /\ [][NextReference]_vars

\* ------------------------------------------------------- nested hooks
\* pgm_planner, pgm_ExecutorRun and pgm_ExecutorFinish count themselves in
\* nesting_level around the call of the chain: the backend is inside the
\* hook until the chain returns or raises an error.
HookNames == {"pgm_planner", "pgm_ExecutorRun", "pgm_ExecutorFinish"}

\* nesting_level++; PG_TRY(): the chain is entered
HookEnter(w, hook) ==
    /\ alive[w]
    /\ hook_depth[w] < MaxNesting
    /\ nesting_level' = [nesting_level EXCEPT ![w] = @ + 1]
    /\ hook_depth' = [hook_depth EXCEPT ![w] = @ + 1]
    /\ last' = [op |-> "enter", w |-> w, hook |-> hook]
    /\ UNCHANGED <<pgm_hash, state_decisions, alive, prepared_queries,
                   pgm_local_hash, local_state_generation,
                   before_shmem_exit_initialised, metering_htab, owed,
                   lockvars>>

\* the chain returns: PG_FINALLY(), nesting_level--
HookReturn(w) ==
    /\ alive[w]
    /\ hook_depth[w] > 0
    /\ nesting_level' = [nesting_level EXCEPT ![w] = @ - 1]
    /\ hook_depth' = [hook_depth EXCEPT ![w] = @ - 1]
    /\ last' = [op |-> "return", w |-> w]
    /\ UNCHANGED <<pgm_hash, state_decisions, alive, prepared_queries,
                   pgm_local_hash, local_state_generation,
                   before_shmem_exit_initialised, metering_htab, owed,
                   lockvars>>

\* the chain raises an error that is caught frames hooks further out (by
\* the main loop of the backend when frames is the depth): the PG_FINALLY()
\* of every hook on the way runs nesting_level--
HookError(w, frames) ==
    /\ alive[w]
    /\ frames >= 1
    /\ frames <= hook_depth[w]
    /\ nesting_level' = [nesting_level EXCEPT ![w] = @ - frames]
    /\ hook_depth' = [hook_depth EXCEPT ![w] = @ - frames]
    /\ last' = [op |-> "error", w |-> w]
    /\ UNCHANGED <<pgm_hash, state_decisions, alive, prepared_queries,
                   pgm_local_hash, local_state_generation,
                   before_shmem_exit_initialised, metering_htab, owed,
                   lockvars>>

\* pgm_ExecutorEnd of a query at any level.  totaltime: the query has its
\* instrumentation (pgm_ExecutorStart allocates it under the same
\* conditions, another module may have); explain_only: es_top_eflags has
\* EXEC_FLAG_EXPLAIN_ONLY.
pgm_ExecutorEnd(w, q, totaltime, explain_only, nblocks, exec_time) ==
    /\ alive[w]
    /\ Executed < MaxExec
    /\ pgm_hash' =
            IF /\ q # 0 /\ totaltime
               /\ pgm_enabled(nesting_level[w])
               /\ ~explain_only
               /\ pgm_local_hash[w][q] > 0
            THEN [pgm_hash EXCEPT ![q] = on_execute(@, nblocks, exec_time)]
            ELSE pgm_hash
    /\ last' = [op |-> "executor_end", w |-> w, q |-> q,
                totaltime |-> totaltime, explain_only |-> explain_only]
    /\ UNCHANGED <<state_decisions, alive, prepared_queries, pgm_local_hash,
                   local_state_generation, before_shmem_exit_initialised,
                   metering_htab, nesting_level, hook_depth, owed, lockvars>>

\* Two backends, two queries, one statement name: statements are prepared
\* and deallocated, hooks are entered inside one another and left by return
\* or by error, queries of any identifier end at any level, backends exit
\* and start.
NextNesting ==
    \/ Lifecycle(Workers, {"a"}, QueryIds, RawEntries({0}, {FALSE}, {0}, {0}))
    \/ \E w \in Workers, hook \in HookNames : HookEnter(w, hook)
    \/ \E w \in Workers : HookReturn(w)
    \/ \E w \in Workers, frames \in 1..MaxNesting : HookError(w, frames)
    \/ \E w \in Workers, q \in AllIds, totaltime \in BOOLEAN,
          explain_only \in BOOLEAN :
            pgm_ExecutorEnd(w, q, totaltime, explain_only, 4, 1)
    \/ Backends(Workers)

SpecNesting == Init /\ [][NextNesting]_vars

\* ------------------------------------------------------------ automode.c
\* The local metering table of automode.c, for one backend and one query
\* with one prepared statement.  An entry keeps the number of executions
\* metered with a custom and with a generic plan and the number of plannings
\* metered; the totals of time and blocks that go with them are added and
\* zeroed together with the counters and are left out.
othervars == <<pgm_hash, state_decisions, alive, prepared_queries,
               pgm_local_hash, local_state_generation,
               before_shmem_exit_initialised, partition_lock, pc, owed,
               nesting_level, hook_depth>>

\* nmeterings of pgm_ExecutorEnd: the size of the sample once both kinds of
\* plan have been metered, 0 before
metering_sample(entry) ==
    IF entry.custom_meterings > 0 /\ entry.generic_meterings > 0
    THEN entry.custom_meterings + entry.generic_meterings
    ELSE 0

reset_statement_meterings(entry) ==
    [entry EXCEPT !.custom_meterings = 0, !.generic_meterings = 0,
                  !.plan_meterings = 0]

\* PREPARE of the first statement of the query
automode_on_prepare ==
    /\ metering_htab = NoEntry
    /\ metering_htab' = [custom_meterings |-> 0, generic_meterings |-> 0,
                         plan_meterings |-> 0, attempts_counter |-> 0]
    /\ last' = [op |-> "automode"]
    /\ UNCHANGED othervars

\* DEALLOCATE of the only statement of the query
automode_on_deallocate ==
    /\ metering_htab # NoEntry
    /\ metering_htab' = NoEntry
    /\ last' = [op |-> "automode"]
    /\ UNCHANGED othervars

\* pgm_ExecutorEnd of automode.c.  metered: auto mode is managed, the query
\* has an identifier and instrumentation, runs at the top level and is not
\* explain-only.  is_generic: the plan executed is the generic plan of the
\* statement.
automode_ExecutorEnd(metered, is_generic) ==
    /\ metering_htab # NoEntry =>
            metering_htab.custom_meterings + metering_htab.generic_meterings
                < MaxMeterings
    /\ IF ~metered \/ metering_htab = NoEntry
       THEN UNCHANGED metering_htab
       ELSE LET entry == IF metering_sample(metering_htab) >= METERINGS_MAX
                         THEN reset_statement_meterings(metering_htab)
                         ELSE metering_htab
            IN  metering_htab' =
                    IF is_generic
                    THEN [entry EXCEPT !.generic_meterings = @ + 1]
                    ELSE [entry EXCEPT !.custom_meterings = @ + 1]
    /\ last' = [op |-> "automode"]
    /\ UNCHANGED othervars

\* One backend, one query: the statement is prepared and deallocated, and
\* executed with either kind of plan.
NextMetering ==
    \/ automode_on_prepare
    \/ automode_on_deallocate
    \/ \E metered \in BOOLEAN, is_generic \in BOOLEAN :
            automode_ExecutorEnd(metered, is_generic)

SpecMetering == Init /\ [][NextMetering]_vars

\* ------------------------------------------- every call, lock by lock
\* Each queryid has a partition of its own.  A call on one entry
\* (dshash_find, dshash_find_or_insert) locks its partition exclusively; a
\* sequential scan (dshash_seq_init / dshash_seq_next / dshash_seq_term)
\* goes through the partitions in ascending order and locks the next
\* partition before it releases the current one.

\* The partitions a sequential scan of backend w holds
ScanHeld(w) == IF pc[w] # Idle /\ pc[w].op = "scan" THEN pc[w].held ELSE {}

\* The partitions backend w holds, in either mode
HeldBy(w) == {q \in AllIds : partition_lock[q] = w} \cup ScanHeld(w)

\* LWLockAcquire on partition q would not wait
LockFree(w, q, exclusive) ==
    /\ partition_lock[q] = 0
    /\ exclusive => \A o \in Workers \ {w} : q \notin ScanHeld(o)

\* The calls in flight that may still move state_decisions, and those that
\* will still record a sample
PendingBumps ==
    SumOver([w \in Workers |->
                IF pc[w] = Idle THEN 0
                ELSE IF pc[w].op = "set_plan_mode" THEN 1
                ELSE IF pc[w].op = "scan" /\ pc[w].kind = "reconsider"
                THEN Cardinality(QueryIds)
                ELSE 0], Workers)

PendingSamples ==
    Cardinality({w \in Workers : pc[w] # Idle /\ pc[w].op = "execute"})

EntryOps == {"prepare", "deallocate", "execute", "plan_time", "set_plan_mode"}

EntryCalls(OPS, N, Q, ST, REF) ==
    {[op |-> o, q |-> q, status |-> st, ref |-> ref, fixed |-> FALSE,
      n |-> n, at |-> "call", waited |-> FALSE, absent |-> FALSE] :
        o \in OPS, q \in Q, st \in ST, ref \in REF, n \in N}

\* the hook or SQL function is entered; it reaches the dshash call
EntryCall(w, call) ==
    /\ alive[w]
    /\ pc[w] = Idle
    /\ call.q # 0
    /\ CASE call.op = "prepare" -> prepared_queries[w][call.n] = NoStmt
         [] call.op = "deallocate" ->
                /\ prepared_queries[w][call.n] # NoStmt
                /\ prepared_queries[w][call.n].queryId = call.q
                /\ pgm_local_hash[w][call.q] > 0
         [] call.op = "execute" ->
                /\ pgm_local_hash[w][call.q] > 0
                /\ Executed + PendingSamples < MaxLockExec
         [] call.op = "plan_time" -> pgm_local_hash[w][call.q] > 0
         [] call.op = "set_plan_mode" ->
                state_decisions + PendingBumps < MaxLockEpoch
    /\ pc' = [pc EXCEPT ![w] = [call EXCEPT !.at = "waiting"]]
    /\ UNCHANGED <<pgm_hash, state_decisions, alive, prepared_queries,
                   pgm_local_hash, local_state_generation,
                   before_shmem_exit_initialised,
                   metering_htab, nesting_level, hook_depth,
                   owed, partition_lock, last>>

\* dshash_find(..., true) / dshash_find_or_insert gets the partition
EntryLock(w) ==
    /\ pc[w] # Idle
    /\ pc[w].op \in EntryOps \cup {"deallocate_all"}
    /\ pc[w].at = "waiting"
    /\ LockFree(w, pc[w].q, TRUE)
    /\ partition_lock' = [partition_lock EXCEPT ![pc[w].q] = w]
    /\ pc' = [pc EXCEPT ![w].at = "locked",
                        ![w].absent = (pgm_hash[pc[w].q] = NoEntry)]
    /\ UNCHANGED <<pgm_hash, state_decisions, alive, prepared_queries,
                   pgm_local_hash, local_state_generation,
                   before_shmem_exit_initialised,
                   metering_htab, nesting_level, hook_depth, owed, last>>

Locked(w, op) == pc[w] # Idle /\ pc[w].op = op /\ pc[w].at = "locked"

\* pgm_planner with the entry locked: the planning time, then the release
PlannerLocked(w, duration) ==
    /\ Locked(w, "plan_time")
    /\ pgm_hash' = [pgm_hash EXCEPT ![pc[w].q].plan_time = duration * Scale]
    /\ last' = [op |-> "planner", w |-> w]
    /\ UNCHANGED <<state_decisions, alive, prepared_queries, pgm_local_hash,
                   local_state_generation, before_shmem_exit_initialised,
                   metering_htab, nesting_level, hook_depth, owed>>
    /\ dshash_release_lock(w, pc[w].q)

\* the rest of the call on one entry, the lock held, up to the release
EntryWork(w, RAW) ==
    \/ Locked(w, "prepare") /\ Prepare(w, pc[w].n, pc[w].q, RAW)
    \/ Locked(w, "deallocate") /\ Deallocate(w, pc[w].n)
    \/ Locked(w, "execute") /\ ExecutorEndUpTo(w, pc[w].q, 4, 1, MaxLockExec)
    \/ PlannerLocked(w, 2)
    \/ /\ Locked(w, "set_plan_mode")
       /\ pg_mentor_set_plan_mode(w, pc[w].q, pc[w].status, pc[w].ref[1],
                                  pc[w].ref[2], pc[w].fixed, RAW)

\* The queryids of the local registry of backend w
Registered(w) == {q \in QueryIds : pgm_local_hash[w][q] > 0}

\* DEALLOCATE ALL (exit = FALSE) or before_backend_shutdown (exit = TRUE):
\* on_deallocate(0) starts its loop over the local registry
DeallocateAllCall(w, exit) ==
    /\ alive[w]
    /\ pc[w] = Idle
    /\ prepared_queries' = [prepared_queries EXCEPT ![w] = [n \in Names |-> NoStmt]]
    /\ owed' = [owed EXCEPT ![w] = [n \in Names |-> NoOwed]]
    /\ last' = [op |-> IF exit THEN "exit" ELSE "deallocate_all", w |-> w]
    /\ IF Registered(w) = {}
       THEN /\ alive' = [alive EXCEPT ![w] = ~exit]
            /\ UNCHANGED pc
       ELSE /\ \E q \in Registered(w) :
                pc' = [pc EXCEPT ![w] =
                        [op |-> "deallocate_all", q |-> q, at |-> "waiting",
                         exit |-> exit, waited |-> FALSE, absent |-> FALSE]]
            /\ UNCHANGED alive
    /\ UNCHANGED <<pgm_hash, state_decisions, pgm_local_hash,
                   local_state_generation, before_shmem_exit_initialised,
                   metering_htab, nesting_level, hook_depth,
                   partition_lock>>

\* one turn of the loop: the references of the entry are given back, the lock
\* is released, the local entry is removed
DeallocateAllLocked(w) ==
    /\ Locked(w, "deallocate_all")
    /\ LET q == pc[w].q
           rest == Registered(w) \ {q}
       IN  /\ pgm_hash' = [pgm_hash EXCEPT
                            ![q].refcounter = @ - pgm_local_hash[w][q]]
           /\ pgm_local_hash' = [pgm_local_hash EXCEPT ![w][q] = 0]
           /\ partition_lock' = [partition_lock EXCEPT ![q] = 0]
           /\ IF rest = {}
              THEN /\ pc' = [pc EXCEPT ![w] = Idle]
                   /\ alive' = [alive EXCEPT ![w] = ~pc[w].exit]
              ELSE /\ \E o \in rest :
                        pc' = [pc EXCEPT ![w].q = o, ![w].at = "waiting"]
                   /\ UNCHANGED alive
    /\ last' = [op |-> "deallocate_all", w |-> w]
    /\ UNCHANGED <<state_decisions, prepared_queries, local_state_generation,
                   before_shmem_exit_initialised,
                   metering_htab, nesting_level, hook_depth, owed>>

ScanKinds == {"sync", "reconsider", "reset", "show"}

\* dshash_seq_init: check_state (kind "sync"), reconsider_ps_modes,
\* pg_mentor_reset (the only exclusive scan) or pg_mentor_show_prepared_statements
ScanCall(w, kind) ==
    /\ alive[w]
    /\ pc[w] = Idle
    /\ kind = "sync" =>
            /\ state_decisions # local_state_generation[w]
            /\ \E n \in Names : prepared_queries[w][n] # NoStmt
    /\ kind = "reconsider" =>
            state_decisions + PendingBumps + Cardinality(QueryIds) <= MaxRevert
    /\ pc' = [pc EXCEPT ![w] =
                [op |-> "scan", kind |-> kind, exclusive |-> (kind = "reset"),
                 q |-> 1, at |-> "waiting", held |-> {},
                 generation |-> state_decisions]]
    /\ UNCHANGED <<pgm_hash, state_decisions, alive, prepared_queries,
                   pgm_local_hash, local_state_generation,
                   before_shmem_exit_initialised,
                   metering_htab, nesting_level, hook_depth,
                   owed, partition_lock, last>>

Scanning(w, at) == pc[w] # Idle /\ pc[w].op = "scan" /\ pc[w].at = at

\* dshash_seq_next: LWLockAcquire on the next partition
ScanLock(w) ==
    /\ Scanning(w, "waiting")
    /\ LockFree(w, pc[w].q, pc[w].exclusive)
    /\ partition_lock' = IF pc[w].exclusive
                         THEN [partition_lock EXCEPT ![pc[w].q] = w]
                         ELSE partition_lock
    /\ pc' = [pc EXCEPT ![w].at = "acquired", ![w].held = @ \cup {pc[w].q}]
    /\ UNCHANGED <<pgm_hash, state_decisions, alive, prepared_queries,
                   pgm_local_hash, local_state_generation,
                   before_shmem_exit_initialised,
                   metering_htab, nesting_level, hook_depth, owed, last>>

\* dshash_seq_next: LWLockRelease on the partition it came from
ScanRelease(w) ==
    /\ Scanning(w, "acquired")
    /\ partition_lock' = [q \in AllIds |->
                            IF partition_lock[q] = w /\ q # pc[w].q
                            THEN 0 ELSE partition_lock[q]]
    /\ pc' = [pc EXCEPT ![w].at = "holding", ![w].held = {pc[w].q}]
    /\ UNCHANGED <<pgm_hash, state_decisions, alive, prepared_queries,
                   pgm_local_hash, local_state_generation,
                   before_shmem_exit_initialised,
                   metering_htab, nesting_level, hook_depth, owed, last>>

\* The body of the loop on the entry of partition q, if there is one: what
\* the scan of this kind does to the entry, the counter and the statements
ScanBody(w, kind, q) ==
    LET entry == pgm_hash[q]
        step == reconsider_step(entry)
        r == pg_mentor_set_plan_mode_int(entry, step_mode(step), -Scale,
                                         -Scale, step_fixed(step))
        same == [hash |-> pgm_hash, decisions |-> state_decisions,
                 pq |-> prepared_queries[w], error |-> FALSE, switched |-> {}]
    IN  IF entry = NoEntry THEN same
        ELSE IF kind = "sync"
        THEN [same EXCEPT !.pq = [n \in Names |->
                LET ps == prepared_queries[w][n] IN
                IF ps # NoStmt /\ ps.queryId = q
                THEN [ps EXCEPT !.cursor_options =
                        set_plan_cache_mode(@, entry.plan_cache_mode)]
                ELSE ps]]
        ELSE IF kind = "reset"
        THEN [same EXCEPT !.hash = [pgm_hash EXCEPT ![q] = reset_entry(entry)]]
        ELSE IF kind = "reconsider" /\ step # 0
        THEN [same EXCEPT !.hash = [pgm_hash EXCEPT ![q] = r.entry],
                          !.decisions = IF r.error THEN state_decisions
                                        ELSE move_mentor_status(state_decisions),
                          !.error = r.error,
                          !.switched = IF r.error THEN {} ELSE {q}]
        ELSE same

\* the body of the loop, then dshash_seq_next asks for the next partition;
\* after the last one, or when the error is raised, every lock is released
\* (dshash_seq_term, or the abort of the transaction)
ScanVisit(w) ==
    /\ Scanning(w, "holding")
    /\ LET q == pc[w].q
           r == ScanBody(w, pc[w].kind, q)
           done == r.error \/ q = MaxId
       IN  /\ pgm_hash' = r.hash
           /\ state_decisions' = r.decisions
           /\ prepared_queries' = [prepared_queries EXCEPT ![w] = r.pq]
           /\ owed' = LET kept == OwedKept(
                                [w1 \in Workers |-> [n \in Names |->
                                    IF /\ prepared_queries[w1][n] # NoStmt
                                       /\ prepared_queries[w1][n].queryId \in r.switched
                                    THEN NoOwed ELSE owed[w1][n]]],
                                pgm_hash', prepared_queries)
                      IN  IF done /\ pc[w].kind = "sync"
                          THEN OwedSynced(kept, w) ELSE kept
           /\ local_state_generation' =
                IF /\ done /\ pc[w].kind = "sync"
                   /\ local_state_generation[w] < pc[w].generation
                THEN [local_state_generation EXCEPT ![w] = pc[w].generation]
                ELSE local_state_generation
           /\ IF done
              THEN /\ pc' = [pc EXCEPT ![w] = Idle]
                   /\ partition_lock' = [p \in AllIds |->
                                IF partition_lock[p] = w THEN 0
                                ELSE partition_lock[p]]
              ELSE /\ pc' = [pc EXCEPT ![w].q = q + 1, ![w].at = "waiting"]
                   /\ UNCHANGED partition_lock
    /\ last' = [op |-> pc[w].kind, w |-> w]
    /\ UNCHANGED <<alive, pgm_local_hash, before_shmem_exit_initialised,
                   metering_htab, nesting_level, hook_depth>>

\* what a backend inside a call does next, its lock granted or not needed
Work(w) ==
    \/ EntryWork(w, RawEntries({0}, {FALSE}, {0}, {0}))
    \/ DeallocateAllLocked(w)
    \/ ScanRelease(w)
    \/ ScanVisit(w)

\* the lock a backend waits for is granted
Acquire(w) == EntryLock(w) \/ ScanLock(w)

\* Two backends, two queries, each in a partition of its own: every hook and
\* SQL function goes from its call to its return lock by lock.  Backend 1 is
\* the session with the prepared statement: PREPARE, DEALLOCATE, executions,
\* planning, check_state, DEALLOCATE ALL and its exit; backend 2 runs the
\* SQL functions of the extension.
NextProgress ==
    \/ \E w \in {1}, call \in EntryCalls({"prepare", "deallocate"}, {"a"},
                                          QueryIds, {0}, {<<-1, -1>>}) :
            EntryCall(w, call)
    \/ \E w \in {1}, call \in EntryCalls({"execute", "plan_time"}, {""},
                                          {1}, {0}, {<<-1, -1>>}) :
            EntryCall(w, call)
    \/ \E w \in {2}, call \in EntryCalls({"set_plan_mode"}, {""}, {1}, {1},
                                          {<<-1, -1>>}) : EntryCall(w, call)
    \/ \E w \in {1}, exit \in BOOLEAN : DeallocateAllCall(w, exit)
    \/ \E w \in {1} : ScanCall(w, "sync")
    \/ \E w \in {2}, kind \in ScanKinds \ {"sync"} : ScanCall(w, kind)
    \/ \E w \in Workers : Acquire(w)
    \/ \E w \in Workers : Work(w)
    \/ \E w \in Workers : PG_init(w)

\* A backend that runs keeps running (weak fairness on its steps), and a
\* backend queued on a lightweight lock is woken when the lock is released
\* (strong fairness on the grant).
Fairness == \A w \in Workers : WF_vars(Work(w)) /\ SF_vars(Acquire(w))

SpecProgress == Init /\ [][NextProgress]_vars /\ Fairness

\* ------------------------------------------------------------ claims
LiveIds(w) == {prepared_queries[w][n].queryId :
                    n \in {m \in Names : prepared_queries[w][m] # NoStmt}}

LocalSum(q) ==
    IF q = 0 THEN 0
    ELSE SumOver([w \in Workers |-> IF alive[w] THEN pgm_local_hash[w][q] ELSE 0],
                 Workers)

\* C1: for every queryid the refcounter of the shared entry equals the sum
\* of the local refcounters of the backends that have not exited.
C1_RefcountConservation ==
    \A q \in AllIds :
        IF pgm_hash[q] = NoEntry THEN LocalSum(q) = 0
        ELSE pgm_hash[q].refcounter = LocalSum(q)

\* C2: a statement that was live when a backend stored a mode by hand
\* carries that mode once its own backend has gone through check_state, as
\* long as the entry has kept the mode.
C2_ManualModeReachesEveryHandle ==
    \A w \in Workers, n \in Names :
        (owed[w][n] # NoOwed /\ owed[w][n].synced) =>
            /\ prepared_queries[w][n] # NoStmt
            /\ EngineMode(prepared_queries[w][n].cursor_options) = owed[w][n].mode

\* C2 witness: the statement of one backend carries the generic mode that
\* the other backend stored, after its own check_state.
C2_Witness ==
    \E w \in Workers, n \in Names :
        /\ owed[w][n] # NoOwed
        /\ owed[w][n].synced
        /\ owed[w][n].by # w
        /\ owed[w][n].mode = 1
        /\ last.op = "check_state" /\ last.w = w /\ last.scanned
        /\ EngineMode(prepared_queries[w][n].cursor_options) = 1

\* C3: a successful manual set, a reconsider pass that switched an entry and
\* a reset that changed a mode each leave state_decisions higher than before
\* and higher than every backend's local_state_generation.
C3_EveryDecisionChangeBumps ==
    [][(\/ (last'.op = "set_plan_mode" /\ last'.res = "t")
        \/ (last'.op = "reconsider" /\ ~last'.error /\ last'.switched # {})
        \/ (last'.op = "reset" /\ last'.forced > 0))
       => /\ state_decisions' > state_decisions
          /\ \A w \in Workers : local_state_generation'[w] < state_decisions']_vars

\* C4: after a check_state that found the generation changed in a backend
\* without prepared statements, local_state_generation is the generation.
C4_EmptyListStillAdvances ==
    (last.op = "check_state" /\ last.fetched /\ LiveIds(last.w) = {}) =>
        local_state_generation[last.w] = state_decisions

\* C5: a check_state that directly follows a check_state of the same backend
\* neither lists the prepared statements nor scans the table.
C5_SecondSyncDoesNothing ==
    (last.op = "check_state" /\ last.again) => (~last.fetched /\ ~last.scanned)

\* C6: a pg_mentor_set_plan_mode that raises the error on an entry with an
\* empty ring leaves the entry and state_decisions as they were.
C6_RejectedSetChangesNothing ==
    [][(/\ last'.op = "set_plan_mode" /\ last'.res = "error"
        /\ pgm_hash[last'.q] # NoEntry
        /\ ring_buffer_size(pgm_hash[last'.q]) = 0)
       => /\ pgm_hash'[last'.q].plan_cache_mode = pgm_hash[last'.q].plan_cache_mode
          /\ pgm_hash'[last'.q].fixed = pgm_hash[last'.q].fixed
          /\ pgm_hash'[last'.q].ref_exec_time = pgm_hash[last'.q].ref_exec_time
          /\ pgm_hash'[last'.q].ref_nblocks = pgm_hash[last'.q].ref_nblocks
          /\ state_decisions' = state_decisions]_vars

\* C7: pg_mentor_set_plan_mode never waits for the lock of the entry, and
\* a call that found the lock held by another backend returns false and
\* leaves the table and state_decisions as they were.
C7_SetModeFailsFast ==
    /\ [](\A w \in Workers :
            ~(pc[w] # Idle /\ pc[w].op = "set_plan_mode" /\ pc[w].at = "waiting"))
    /\ [][\A w \in Workers :
            (/\ pc[w] # Idle /\ pc[w].op = "set_plan_mode" /\ pc[w].waited
             /\ pc'[w] = Idle)
            => /\ last'.res = "f"
               /\ pgm_hash' = pgm_hash
               /\ state_decisions' = state_decisions]_vars

\* C8: pg_mentor_reset keeps the set of entries and every refcounter, and
\* leaves every entry in auto mode, not fixed, with an empty ring, zero
\* averages and the reference values at their sentinel.
C8_ResetClearsEveryEntry ==
    [][last'.op = "reset" =>
        \A q \in AllIds :
            IF pgm_hash[q] = NoEntry THEN pgm_hash'[q] = NoEntry
            ELSE /\ pgm_hash'[q] # NoEntry
                 /\ pgm_hash'[q].refcounter = pgm_hash[q].refcounter
                 /\ pgm_hash'[q].plan_cache_mode = 0
                 /\ pgm_hash'[q].fixed = FALSE
                 /\ ring_buffer_size(pgm_hash'[q]) = 0
                 /\ \A i \in StatIdx : /\ pgm_hash'[q].nblocks[i] < 0
                                       /\ pgm_hash'[q].times[i] < 0
                 /\ pgm_hash'[q].avg_nblocks = 0
                 /\ pgm_hash'[q].avg_exec_time = 0
                 /\ pgm_hash'[q].ref_exec_time = -Scale
                 /\ pgm_hash'[q].ref_nblocks = -Scale]_vars

\* C8 witness: a reset of a table of two entries, one with a decision and
\* one with samples, has left a referenced entry cleared.
C8_Witness ==
    /\ last.op = "reset"
    /\ last.res = 2
    /\ last.forced >= 1
    /\ last.sampled >= 1
    /\ \E q \in QueryIds :
        /\ pgm_hash[q] # NoEntry
        /\ pgm_hash[q].refcounter >= 1
        /\ pgm_hash[q].plan_cache_mode = 0
        /\ ring_buffer_size(pgm_hash[q]) = 0

\* C9 as stated: pg_mentor_reset returns the number of entries whose mode
\* was not auto before the call.
C9_ResetCountsDecisions ==
    last.op = "reset" => last.res = last.forced

\* C9: pg_mentor_reset returns the number of entries of the table.
C9_ResetCountsEntries ==
    last.op = "reset" =>
        last.res = Cardinality({q \in AllIds : pgm_hash[q] # NoEntry})

\* C9 witness: a reset has returned 2 with one entry out of auto mode.
C9_Witness ==
    /\ last.op = "reset"
    /\ last.res = 2
    /\ last.forced = 1
    /\ Cardinality({q \in AllIds : pgm_hash[q] # NoEntry}) = 2

\* C10: an entry that reconsider_ps_modes moves from forced generic, not
\* fixed and with a reference time, to forced custom is fixed afterwards.
C10_RevertPinsTheEntry ==
    [][\A q \in QueryIds :
        (/\ last'.op = "reconsider" /\ ~last'.error
         /\ q \in last'.switched
         /\ pgm_hash[q].plan_cache_mode = 1
         /\ ~pgm_hash[q].fixed
         /\ pgm_hash[q].ref_exec_time > 0
         /\ pgm_hash'[q].plan_cache_mode = 2)
        => pgm_hash'[q].fixed]_vars

\* C11: an entry in auto mode, not fixed, without a reference time, with at
\* least two samples, an average execution time below plan_time and a
\* deviation of nblocks of at most 0.3 of their average is, after one
\* reconsider_ps_modes, in forced generic mode with the averages of that
\* moment as its reference values, and is counted in to_generic.
C11_ProbeToGeneric ==
    [][\A q \in QueryIds :
        (/\ last'.op = "reconsider" /\ ~last'.error
         /\ pgm_hash[q] # NoEntry
         /\ pgm_hash[q].plan_cache_mode = 0
         /\ ~pgm_hash[q].fixed
         /\ pgm_hash[q].ref_exec_time < 0
         /\ ring_buffer_size(pgm_hash[q]) >= 2
         /\ pgm_hash[q].avg_nblocks > 0
         /\ pgm_hash[q].avg_exec_time < pgm_hash[q].plan_time
         /\ CoeffVarLE(pgm_hash[q], ring_buffer_size(pgm_hash[q]), 3, 10))
        => /\ pgm_hash'[q].plan_cache_mode = 1
           /\ pgm_hash'[q].ref_exec_time = pgm_hash[q].avg_exec_time
           /\ pgm_hash'[q].ref_nblocks = pgm_hash[q].avg_nblocks
           /\ q \in last'.switched
           /\ last'.to_generic >= 1]_vars

\* C11 witness: a pass has taken step 1 on an entry, which is now in forced
\* generic mode with its average execution time as the reference.
C11_Witness ==
    /\ last.op = "reconsider" /\ ~last.error
    /\ last.to_generic = 1
    /\ \E q \in QueryIds :
        /\ last.steps[q] = 1
        /\ pgm_hash[q].plan_cache_mode = 1
        /\ pgm_hash[q].ref_exec_time = pgm_hash[q].avg_exec_time
        /\ pgm_hash[q].ref_exec_time > 0

\* C12: reconsider_ps_modes leaves an entry that is fixed as it is, whatever
\* its statistics: the entry is not switched, state_decisions moves only by
\* the number of the entries that were switched, and the entry is among the
\* unchanged ones.
C12_FixedIsNeverTouched ==
    [][\A q \in QueryIds :
        (/\ last'.op = "reconsider"
         /\ pgm_hash[q] # NoEntry
         /\ pgm_hash[q].fixed)
        => /\ pgm_hash'[q] = pgm_hash[q]
           /\ ~last'.error =>
                /\ q \notin last'.switched
                /\ last'.steps[q] = 0
                /\ state_decisions' =
                        state_decisions + Cardinality(last'.switched)
                /\ last'.unchanged >= 1]_vars

\* C12 witness: a pass has left alone a fixed entry in forced generic mode
\* whose statistics meet every other condition of step 2.
C12_Witness ==
    /\ last.op = "reconsider" /\ ~last.error
    /\ last.unchanged = 1 /\ last.to_custom = 0
    /\ \E q \in QueryIds :
        /\ pgm_hash[q] # NoEntry
        /\ pgm_hash[q].fixed
        /\ pgm_hash[q].plan_cache_mode = 1
        /\ ring_buffer_size(pgm_hash[q]) >= 2
        /\ pgm_hash[q].ref_exec_time > 0
        /\ pgm_hash[q].avg_exec_time < pgm_hash[q].plan_time * 2
        /\ pgm_hash[q].avg_nblocks > 0
        /\ RatioAboveOne(pgm_hash[q].avg_nblocks, pgm_hash[q].ref_nblocks)

\* C13: after a reconsider_ps_modes pass, to_generic is the number of
\* entries the pass moved to forced generic, to_custom the number it moved to
\* forced custom, unchanged the number of entries it left as they were, and
\* the three add up to the number of entries of the table.
C13_TallyAccounting ==
    [][(last'.op = "reconsider" /\ ~last'.error) =>
        LET visited == {q \in AllIds : pgm_hash[q] # NoEntry}
            moved(m) == {q \in visited :
                            /\ pgm_hash'[q].plan_cache_mode = m
                            /\ pgm_hash[q].plan_cache_mode # m}
            kept == {q \in visited : pgm_hash'[q] = pgm_hash[q]}
        IN  /\ last'.to_generic + last'.to_custom + last'.unchanged
                    = Cardinality(visited)
            /\ last'.to_generic = Cardinality(moved(1))
            /\ last'.to_custom = Cardinality(moved(2))
            /\ last'.unchanged = Cardinality(kept)
            /\ moved(1) \cup moved(2) \cup kept = visited]_vars

\* C13 witness: a pass over two entries has moved one of them to forced
\* custom and has left the other as it was.
C13_Witness ==
    /\ last.op = "reconsider" /\ ~last.error
    /\ last.to_generic = 0 /\ last.to_custom = 1 /\ last.unchanged = 1
    /\ \E q1, q2 \in QueryIds :
        /\ q1 # q2
        /\ pgm_hash[q1] # NoEntry /\ pgm_hash[q1].plan_cache_mode = 2
        /\ pgm_hash[q2] # NoEntry /\ last.steps[q2] = 0

Min(a, b) == IF a < b THEN a ELSE b

\* C14: ring_buffer_size is 0 for an entry that has just been created or
\* reset, grows by one with every on_execute up to
\* MENTOR_TBL_ENTRY_STAT_SIZE, and changes at no other step: it is the
\* smaller of MENTOR_TBL_ENTRY_STAT_SIZE and the number of executions
\* recorded since.
C14_RingValidCount ==
    [][\A q \in QueryIds :
        pgm_hash'[q] # NoEntry =>
            IF pgm_hash[q] = NoEntry \/ last'.op = "reset"
            THEN ring_buffer_size(pgm_hash'[q]) = 0
            ELSE IF last'.op = "execute" /\ pgm_hash'[q] # pgm_hash[q]
            THEN ring_buffer_size(pgm_hash'[q]) =
                    Min(ring_buffer_size(pgm_hash[q]) + 1,
                        MENTOR_TBL_ENTRY_STAT_SIZE)
            ELSE ring_buffer_size(pgm_hash'[q]) =
                    ring_buffer_size(pgm_hash[q])]_vars

\* C15: once MENTOR_TBL_ENTRY_STAT_SIZE or more executions are recorded,
\* avg_nblocks times MENTOR_TBL_ENTRY_STAT_SIZE is the sum of nblocks[].
C15_RunningAverageIsExact ==
    \A q \in QueryIds :
        (/\ pgm_hash[q] # NoEntry
         /\ pgm_hash[q].next_idx >= MENTOR_TBL_ENTRY_STAT_SIZE)
        => pgm_hash[q].avg_nblocks * MENTOR_TBL_ENTRY_STAT_SIZE
                = Scale * SumTo(pgm_hash[q].nblocks, MENTOR_TBL_ENTRY_STAT_SIZE)

\* C16: on_prepare calls of two backends on the same queryid never work on
\* the entry at the same time; the one that finds no entry creates it with
\* refcounter 1 and returns 1, the other one finds it, adds 1 to the
\* refcounter, leaves the rest of the entry alone and returns the sum.
C16_ConcurrentFirstPrepare ==
    /\ [](\A q \in QueryIds :
            Cardinality({w \in Workers :
                /\ pc[w] # Idle /\ pc[w].at = "locked" /\ pc[w].q = q}) <= 1)
    /\ [][\A w \in Workers :
            (/\ pc[w] # Idle /\ pc[w].op = "prepare" /\ pc'[w] = Idle)
            => LET q == pc[w].q IN
               /\ last'.op = "prepare" /\ last'.w = w
               /\ last'.res = pgm_hash'[q].refcounter
               /\ IF pgm_hash[q] = NoEntry
                  THEN /\ pgm_hash'[q].refcounter = 1
                       /\ ring_buffer_size(pgm_hash'[q]) = 0
                       /\ pgm_hash'[q].plan_cache_mode = 0
                  ELSE pgm_hash'[q] =
                        [pgm_hash[q] EXCEPT !.refcounter = @ + 1]]_vars

\* C16 witness: a backend called on_prepare when the queryid had no entry
\* and the other backend held the lock; it has returned 2 from the entry the
\* other one created, whose refcounter is 2.
C16_Witness ==
    /\ last.op = "prepare" /\ last.waited /\ last.absent
    /\ last.res = 2
    /\ state_decisions = 1
    /\ pgm_hash[1] # NoEntry
    /\ pgm_hash[1].refcounter = 2
    /\ pgm_hash[1].plan_cache_mode = 0
    /\ \A w \in Workers : pgm_local_hash[w][1] = 1 /\ pc[w] = Idle

\* C17: on_prepare of a statement with a queryid creates the shared entry
\* with refcounter 1 when it is absent and adds exactly 1 otherwise, and
\* returns the refcounter it left; on_deallocate of a queryid registered in
\* the backend takes exactly 1 from the shared and from the local refcounter.
C17_PerOperationEffect ==
    [][\A w \in Workers, n \in Names :
        /\ (/\ prepared_queries[w][n] = NoStmt
            /\ prepared_queries'[w][n] # NoStmt
            /\ prepared_queries'[w][n].queryId # 0)
           => LET q == prepared_queries'[w][n].queryId IN
              /\ pgm_hash'[q] # NoEntry
              /\ pgm_hash'[q].refcounter =
                    IF pgm_hash[q] = NoEntry THEN 1
                    ELSE pgm_hash[q].refcounter + 1
              /\ last'.op = "prepare"
              /\ last'.res = pgm_hash'[q].refcounter
              /\ pgm_local_hash'[w][q] = pgm_local_hash[w][q] + 1
              /\ \A o \in QueryIds \ {q} : pgm_hash'[o] = pgm_hash[o]
        /\ (/\ last'.op = "deallocate" /\ last'.w = w
            /\ prepared_queries[w][n] # NoStmt
            /\ prepared_queries'[w][n] = NoStmt
            /\ prepared_queries[w][n].queryId # 0
            /\ pgm_local_hash[w][prepared_queries[w][n].queryId] > 0)
           => LET q == prepared_queries[w][n].queryId IN
              /\ pgm_hash[q] # NoEntry
              /\ pgm_hash'[q] = [pgm_hash[q] EXCEPT !.refcounter = @ - 1]
              /\ pgm_local_hash'[w][q] = pgm_local_hash[w][q] - 1
              /\ \A o \in QueryIds \ {q} :
                    /\ pgm_hash'[o] = pgm_hash[o]
                    /\ pgm_local_hash'[w][o] = pgm_local_hash[w][o]]_vars

\* C17 witness: two statements of one queryid were prepared and one of them
\* was deallocated; one reference is left in both tables.
C17_Witness ==
    /\ last.op = "deallocate"
    /\ prepared_queries[1]["a"] = NoStmt
    /\ prepared_queries[1]["b"] # NoStmt
    /\ prepared_queries[1]["b"].queryId = 1
    /\ pgm_local_hash[1][1] = 1
    /\ pgm_hash[1] # NoEntry
    /\ pgm_hash[1].refcounter = 1

\* The references other backends hold on a queryid
OtherRefs(w, q) ==
    SumOver([v \in Workers |->
                IF v # w /\ alive[v] THEN pgm_local_hash[v][q] ELSE 0], Workers)

\* C18: when a backend exits, every shared entry loses the backend's local
\* refcounter and nothing else, the local registry is emptied, no entry
\* leaves the table, an entry no other backend references is left with
\* refcounter 0, and running the exit procedure again changes nothing.
C18_ExitReleasesOwnReferences ==
    [][\A w \in Workers :
        (alive[w] /\ ~alive'[w]) =>
            /\ \A q \in QueryIds :
                /\ pgm_local_hash'[w][q] = 0
                /\ IF pgm_hash[q] = NoEntry
                   THEN pgm_hash'[q] = NoEntry /\ pgm_local_hash[w][q] = 0
                   ELSE /\ pgm_hash'[q] =
                            [pgm_hash[q] EXCEPT
                                !.refcounter = @ - pgm_local_hash[w][q]]
                        /\ OtherRefs(w, q) = 0 => pgm_hash'[q].refcounter = 0
            /\ \A v \in Workers \ {w} : pgm_local_hash'[v] = pgm_local_hash[v]
            /\ on_deallocate_registry(pgm_hash', pgm_local_hash'[w]) = pgm_hash'
      ]_vars

C20_UnknownDisposeIsHarmless ==
    [][\A w \in Workers, n \in Names :
        (/\ alive[w]
         /\ prepared_queries[w][n] # NoStmt
         /\ prepared_queries[w][n].queryId # 0
         /\ pgm_local_hash[w][prepared_queries[w][n].queryId] = 0
         /\ prepared_queries'[w][n] = NoStmt
         /\ last'.op \in {"deallocate", "crash"} /\ last'.w = w)
        => /\ alive'[w]
           /\ pgm_hash' = pgm_hash
           /\ pgm_local_hash' = pgm_local_hash]_vars

\* C21: whoever writes an entry is the only backend that holds its
\* partition, so no two backends write one entry at a time, no two passes of
\* reconsider_ps_modes switch the same entry together, and check_state never
\* reads an entry whose mode is written and whose reference values are not.
C21_ExclusiveEntryMutation ==
    /\ [](\A q \in QueryIds : \A w \in Writers(q) : Holders(q) = {w})
    /\ [][(last'.op = "check_state" /\ last'.scanned)
            => \A q \in QueryIds : \A w \in Holders(q) :
                    pc[w].at # "mode_written"]_vars

\* The calls of move_mentor_status the step just taken has made
Bumps ==
    IF last'.op = "reload_conf" THEN 1
    ELSE IF last'.op = "set_plan_mode" THEN (IF last'.res = "t" THEN 1 ELSE 0)
    ELSE IF last'.op = "reconsider"
    THEN (IF last'.error THEN 0 ELSE last'.to_generic + last'.to_custom)
    ELSE 0

\* C22: state_decisions starts at 1, never decreases, and every step of any
\* backend adds to it exactly the number of move_mentor_status calls it
\* made, whatever the other backends did in between.
C22_EpochCountsEveryBump ==
    /\ [](state_decisions >= 1 /\ (last.op = "init" => state_decisions = 1))
    /\ [][state_decisions' = state_decisions + Bumps]_vars

\* C22 witness: two calls by different backends have been counted, the
\* second one after the first backend had seen the first.
C22_Witness ==
    /\ state_decisions = 3
    /\ last.op = "reload_conf" /\ last.w = 2
    /\ local_state_generation[1] = 2
    /\ pgm_hash[1] # NoEntry
    /\ pgm_hash[1].plan_cache_mode = 1

\* C23: for every prepared statement, whatever options it carries, and every
\* mode, get_plan_cache_mode reads back the mode set_plan_cache_mode has
\* just applied.
C23_ModeRoundTrip ==
    \A w \in Workers, n \in Names, m \in Modes :
        prepared_queries[w][n] # NoStmt =>
            get_plan_cache_mode(
                set_plan_cache_mode(prepared_queries[w][n].cursor_options, m)) = m

\* C24: the entry on_prepare creates for a queryid that had none has
\* refcounter 1, the mode auto, fixed unset, no reference values and an
\* empty ring.
C24_NewEntryIsBlank ==
    [][\A q \in QueryIds :
        (/\ pgm_hash[q] = NoEntry
         /\ pgm_hash'[q] # NoEntry
         /\ last'.op = "prepare")
        => /\ pgm_hash'[q].refcounter = 1
           /\ pgm_hash'[q].plan_cache_mode = 0
           /\ ~pgm_hash'[q].fixed
           /\ pgm_hash'[q].ref_exec_time = -Scale
           /\ pgm_hash'[q].ref_nblocks = -Scale
           /\ ring_buffer_size(pgm_hash'[q]) = 0]_vars

\* C25: pg_mentor_set_plan_mode with a status that names no mode stores
\* nothing, so every entry of the table carries one of the three modes.
C25_OnlyModesAreStored ==
    \A q \in QueryIds :
        pgm_hash[q] # NoEntry => pgm_hash[q].plan_cache_mode \in Modes

\* C26: pg_mentor_reload_conf adds exactly one to state_decisions and leaves
\* the shared table, the local registries and the statements alone; every
\* backend is behind afterwards, and the check_state of a backend that is
\* behind and has statements leaves each of them with the mode of its entry.
C26_ReloadForcesResync ==
    [][/\ (last'.op = "reload_conf")
            => /\ state_decisions' = state_decisions + 1
               /\ pgm_hash' = pgm_hash
               /\ pgm_local_hash' = pgm_local_hash
               /\ prepared_queries' = prepared_queries
               /\ \A w \in Workers :
                    local_state_generation'[w] < state_decisions'
       /\ \A w \in Workers :
            (/\ last'.op = "check_state" /\ last'.w = w
             /\ local_state_generation[w] < state_decisions
             /\ LiveIds(w) # {})
            => /\ local_state_generation'[w] = state_decisions
               /\ \A n \in Names :
                    LET ps == prepared_queries'[w][n] IN
                    (ps # NoStmt /\ pgm_hash[ps.queryId] # NoEntry)
                        => EngineMode(ps.cursor_options) =
                                pgm_hash[ps.queryId].plan_cache_mode
      ]_vars

\* C26 witness: pg_mentor_reload_conf has just run while the statement of a
\* backend that was up to date carries a mode the table no longer holds.
C26_Witness ==
    /\ last.op = "reload_conf"
    /\ state_decisions = 3
    /\ local_state_generation[2] = 2
    /\ prepared_queries[2]["a"] # NoStmt
    /\ EngineMode(prepared_queries[2]["a"].cursor_options) = 1
    /\ pgm_hash[1] # NoEntry
    /\ pgm_hash[1].plan_cache_mode = 0

\* C27: every entry a pass of reconsider_ps_modes switches gets its averages
\* at that moment as reference values, every other entry is left alone, and
\* the pass adds to_generic + to_custom to state_decisions.
C27_SwitchRecordsBaselineAndBumps ==
    [][(last'.op = "reconsider" /\ ~last'.error) =>
        /\ state_decisions' =
                state_decisions + last'.to_generic + last'.to_custom
        /\ Cardinality(last'.switched) = last'.to_generic + last'.to_custom
        /\ \A q \in QueryIds :
            IF q \in last'.switched
            THEN /\ pgm_hash'[q].plan_cache_mode # pgm_hash[q].plan_cache_mode
                 /\ pgm_hash'[q].ref_nblocks = pgm_hash[q].avg_nblocks
                 /\ pgm_hash'[q].ref_exec_time = pgm_hash[q].avg_exec_time
            ELSE pgm_hash'[q] = pgm_hash[q]]_vars

\* C27 witness: one pass has switched both entries to the generic plan and
\* the counter has moved by two.
C27_Witness ==
    /\ last.op = "reconsider" /\ ~last.error
    /\ last.to_generic = 2 /\ last.to_custom = 0
    /\ state_decisions = 3
    /\ \A q \in QueryIds :
        /\ pgm_hash[q] # NoEntry
        /\ pgm_hash[q].plan_cache_mode = 1
        /\ pgm_hash[q].ref_nblocks = pgm_hash[q].avg_nblocks
        /\ pgm_hash[q].ref_nblocks > 0

\* C28: an entry that a pass of reconsider_ps_modes has taken from the
\* generic back to the custom plan (step 2) keeps its mode in the pass that
\* follows, no call having set or reset it in between.
C28_NoReUndoAfterRevert ==
    [][\A q \in QueryIds :
        (/\ last.op = "reconsider" /\ ~last.error
         /\ last.steps[q] = 2
         /\ last'.op = "reconsider" /\ ~last'.error)
        => pgm_hash'[q].plan_cache_mode = pgm_hash[q].plan_cache_mode]_vars

\* C29: no entry ever leaves the table, and on_prepare of a queryid whose
\* entry has refcounter 0 sets the refcounter to 1 and changes nothing else
\* of the entry: mode, fixed, reference values, averages and rings stay.
C29_HistorySurvivesZero ==
    [][\A q \in QueryIds :
        /\ pgm_hash[q] # NoEntry => pgm_hash'[q] # NoEntry
        /\ (/\ last'.op = "prepare"
            /\ pgm_hash[q] # NoEntry
            /\ pgm_hash[q].refcounter = 0
            /\ \E w \in Workers, n \in Names :
                    /\ prepared_queries[w][n] = NoStmt
                    /\ prepared_queries'[w][n] # NoStmt
                    /\ prepared_queries'[w][n].queryId = q)
           => pgm_hash'[q] = [pgm_hash[q] EXCEPT !.refcounter = 1]]_vars

\* C29 witness: a statement has just been prepared for an entry that was
\* left with refcounter 0, a forced generic plan and two samples.
C29_Witness ==
    /\ last.op = "prepare" /\ last.res = 1
    /\ pgm_hash[1] # NoEntry
    /\ pgm_hash[1].refcounter = 1
    /\ pgm_hash[1].plan_cache_mode = 1
    /\ pgm_hash[1].ref_nblocks > 0
    /\ ring_buffer_size(pgm_hash[1]) = 2

\* The entries a pass must skip: fewer than two executions recorded since
\* the entry was created or reset, or no positive average of nblocks
Insufficient(q) ==
    /\ pgm_hash[q] # NoEntry
    /\ \/ Min(pgm_hash[q].next_idx, MENTOR_TBL_ENTRY_STAT_SIZE) < 2
       \/ pgm_hash[q].avg_nblocks <= 0

\* C30: a pass of reconsider_ps_modes leaves every entry with fewer than
\* two samples or without a positive average of nblocks as it was, counts it
\* as unchanged, and goes on to every other entry of the table.
C30_InsufficientTelemetryIsSkipped ==
    [][(last'.op = "reconsider") =>
        /\ \A q \in QueryIds : Insufficient(q) => pgm_hash'[q] = pgm_hash[q]
        /\ ~last'.error =>
            /\ \A q \in QueryIds :
                /\ Insufficient(q) =>
                        (last'.steps[q] = 0 /\ q \notin last'.switched)
                /\ pgm_hash[q] # NoEntry => last'.steps[q] >= 0
            /\ last'.unchanged >=
                    Cardinality({q \in QueryIds : Insufficient(q)})]_vars

\* ------------------------------------------------------------ C31
\* Backend w is queued on a partition lock
Waiting(w) == pc[w] # Idle /\ pc[w].at = "waiting"

LockDiscipline ==
    \A w \in Workers :
        /\ pc[w] = Idle => HeldBy(w) = {}
        /\ pc[w] # Idle /\ pc[w].op # "scan" =>
                /\ Cardinality(HeldBy(w)) <= 1
                /\ Waiting(w) => HeldBy(w) = {}
        /\ pc[w] # Idle /\ pc[w].op = "scan" =>
                /\ Cardinality(HeldBy(w)) <= 2
                /\ Cardinality(HeldBy(w)) = 2 => pc[w].at = "acquired"
                /\ Waiting(w) => \A q \in HeldBy(w) : q < pc[w].q

C32_SyncIsStateBased ==
    [][\A w \in Workers :
        (last'.op = "check_state" /\ last'.w = w /\ last'.scanned) =>
            \A n \in Names :
                LET ps == prepared_queries[w][n] IN
                (ps # NoStmt /\ pgm_hash[ps.queryId] # NoEntry) =>
                    prepared_queries'[w][n].cursor_options =
                        set_plan_cache_mode(
                            ps.cursor_options \ {CURSOR_OPT_CUSTOM_PLAN,
                                                 CURSOR_OPT_GENERIC_PLAN},
                            pgm_hash[ps.queryId].plan_cache_mode)]_vars

\* ------------------------------------------------------------ C33
\* Assert(refcounter < UINT32_MAX - 1) on the 32-bit image r of a refcounter
RefcounterAssertion(r) == r \notin {-1, -2}

\* C33: PREPARE, DEALLOCATE, DEALLOCATE ALL and the exit of a backend never
\* subtract from a refcounter more than it holds, and the refcounter they
\* leave satisfies Assert(refcounter < UINT32_MAX - 1), whatever
\* pg_mentor_set_plan_mode and pg_mentor_reset did before.
C33_RefcounterNeverWraps ==
    [][\A q \in QueryIds :
        (/\ last'.op \in {"prepare", "deallocate", "deallocate_all", "exit"}
         /\ pgm_hash'[q] # NoEntry
         /\ pgm_hash'[q] # pgm_hash[q]) =>
            /\ RefcounterAssertion(pgm_hash'[q].refcounter)
            /\ pgm_hash[q] # NoEntry =>
                    LET taken == pgm_hash[q].refcounter - pgm_hash'[q].refcounter
                    IN  ~(taken > 0 /\ pgm_hash[q].refcounter >= 0
                                    /\ pgm_hash[q].refcounter < taken)]_vars

\* ------------------------------------------------------------ C34
\* C34: the sample automode.c keeps for a statement never grows beyond
\* METERINGS_MAX: custom_meterings + generic_meterings <= 1000 in every entry
\* of the metering table, the counters being reset when the sum gets there.
C34_MeteringSampleIsBounded ==
    metering_htab # NoEntry =>
        metering_htab.custom_meterings + metering_htab.generic_meterings
            <= METERINGS_MAX

\* ------------------------------------------------------------ C35
\* C35: a backend whose local_state_generation equals state_decisions has
\* every one of its statements, those prepared after its last check_state
\* included, in the mode stored in the entry of the statement's queryid.
C35_CaughtUpHandlesCarryTheMode ==
    \A w \in Workers :
        (alive[w] /\ local_state_generation[w] = state_decisions) =>
            \A n \in Names :
                LET ps == prepared_queries[w][n] IN
                (ps # NoStmt /\ pgm_hash[ps.queryId] # NoEntry) =>
                    EngineMode(ps.cursor_options) =
                        pgm_hash[ps.queryId].plan_cache_mode

\* ------------------------------------------------------------ C36
\* C36: local_state_generation of a running backend is never ahead of
\* state_decisions and never goes back; it starts at 0 while state_decisions
\* is at least 1, so a backend that has applied nothing yet is behind, and
\* its check_state goes past the comparison of the generations.
C36_LocalGenerationLagsAndGrows ==
    /\ [](\A w \in Workers :
            alive[w] => /\ local_state_generation[w] <= state_decisions
                        /\ state_decisions >= 1
                        /\ local_state_generation[w] >= 0)
    /\ [][\A w \in Workers :
            /\ (alive[w] /\ alive'[w]) =>
                    local_state_generation'[w] >= local_state_generation[w]
            /\ (~alive[w] /\ alive'[w]) => local_state_generation'[w] = 0
            /\ (/\ last'.op = "check_state" /\ last'.w = w
                /\ local_state_generation[w] = 0) => last'.fetched]_vars

\* a backend has applied generation 2 and state_decisions has moved on to 3
C36_Witness ==
    \E w \in Workers :
        /\ alive[w]
        /\ local_state_generation[w] = 2
        /\ state_decisions = 3

C38_HeuristicTransitions ==
    [][last'.op = "reconsider" =>
        \A q \in QueryIds :
            pgm_hash[q] # NoEntry =>
                LET old == pgm_hash[q].plan_cache_mode
                    new == pgm_hash'[q].plan_cache_mode
                    has_reference == pgm_hash[q].ref_exec_time >= 0
                IN  /\ new # old =>
                        <<old, new>> \in {<<0, 1>>, <<0, 2>>, <<1, 2>>, <<2, 1>>}
                    /\ (old = 0 /\ has_reference) => new = old
                    /\ (old \in {1, 2} /\ ~has_reference) => new = old]_vars

\* C39: the entry pg_mentor_set_plan_mode creates for a queryid that had
\* none has refcounter 0 and an empty ring (no valid sample, so that the
\* check of the references for a never executed query applies to it), and
\* on_prepare of a queryid whose entry no backend has registered returns a
\* refcounter of 1.
C39_SetModeEntryIsInitialised ==
    [][\A q \in QueryIds :
        /\ (/\ last'.op = "set_plan_mode" /\ last'.q = q
            /\ pgm_hash[q] = NoEntry)
           => /\ pgm_hash'[q] # NoEntry
              /\ pgm_hash'[q].refcounter = 0
              /\ ring_buffer_size(pgm_hash'[q]) = 0
              /\ pgm_hash'[q].nblocks[1] < 0
        /\ (/\ last'.op = "prepare" /\ last'.res # -1
            /\ pgm_hash'[q] # pgm_hash[q]
            /\ LocalSum(q) = 0)
           => last'.res = 1]_vars

\* C40: pgm_ExecutorEnd changes the shared table only for a query whose
\* identifier is not 0 and is registered in the backend, at nesting level 0
\* and not under EXPLAIN without ANALYZE; what changes then is one entry, and
\* of it the two rings, next_idx and the two averages: one sample more.  In
\* every other case the table is as it was.  The nesting level is the number
\* of hooks the backend is inside of, whether they were left by return or by
\* error.
C40_OnlyTrackedTopLevelExecutions ==
    /\ [](\A w \in Workers : nesting_level[w] = hook_depth[w])
    /\ [][last'.op = "executor_end" =>
            \A q \in AllIds :
                pgm_hash'[q] # pgm_hash[q] =>
                    /\ q = last'.q /\ q # 0
                    /\ pgm_local_hash[last'.w][q] > 0
                    /\ hook_depth[last'.w] = 0
                    /\ ~last'.explain_only
                    /\ pgm_hash[q] # NoEntry
                    /\ pgm_hash'[q].next_idx = pgm_hash[q].next_idx + 1
                    /\ pgm_hash'[q] =
                            [pgm_hash[q] EXCEPT
                                !.nblocks = pgm_hash'[q].nblocks,
                                !.times = pgm_hash'[q].times,
                                !.next_idx = pgm_hash'[q].next_idx,
                                !.avg_nblocks = pgm_hash'[q].avg_nblocks,
                                !.avg_exec_time = pgm_hash'[q].avg_exec_time]
                    /\ \A i \in StatIdx :
                            i # (pgm_hash[q].next_idx
                                    % MENTOR_TBL_ENTRY_STAT_SIZE) + 1
                            => /\ pgm_hash'[q].nblocks[i] = pgm_hash[q].nblocks[i]
                               /\ pgm_hash'[q].times[i] = pgm_hash[q].times[i]]_vars

\* a backend at the top level has recorded the second execution of a query
\* while a backend that has the query registered is inside a hook
C40_Witness ==
    /\ last.op = "executor_end" /\ last.q # 0
    /\ pgm_hash[last.q] # NoEntry /\ pgm_hash[last.q].next_idx = 2
    /\ nesting_level[last.w] = 0
    /\ \E w \in Workers : nesting_level[w] > 0 /\ pgm_local_hash[w][last.q] > 0
====
